---- MODULE Spec2Model ----
(***************************************************************************)
(* Card-combat core of STS-freedom: the component store (World), the card  *)
(* effect resolver (CardEffectResolver), the pile store and the combat     *)
(* phase state machine (CombatStateMachine).                               *)
(*                                                                         *)
(* Every public entry point is one atomic action: the code is synchronous  *)
(* and an entry point runs to completion before the caller sees the state. *)
(* The phases an entry point assigns on its way are kept in "trace", the   *)
(* events it emits in "events".                                            *)
(***************************************************************************)
EXTENDS Integers, Sequences, FiniteSets, TLC

VARIABLES state, world, store, rng, events, trace, tally, last, bus

vars == <<state, world, store, rng, events, trace, tally, last, bus>>

(***************************************************************************)
(* Bounds of the model                                                     *)
(***************************************************************************)
\* endTurn is not taken once the turn counter has reached MaxTurn
MaxTurn == 3
\* no entry point is taken once this many combat-end events were emitted
MaxCombatEnd == 3
\* largest status count and block drawn for the arena
MaxStack == 2

\* null of the source (selectedCardIndex, selectedTargetId, targetId)
NULL == -1

Min(a, b) == IF a < b THEN a ELSE b

Max(a, b) == IF a > b THEN a ELSE b

\* Math.abs
Abs(a) == IF a < 0 THEN -a ELSE a

\* all orders of the elements of a sequence: what a Fisher-Yates shuffle
\* driven by Math.random can produce
Shuffles(s) == { [i \in 1..Len(s) |-> s[p[i]]] : p \in Permutations(1..Len(s)) }

\* the outcomes of F over every element of S
Bind(S, F(_)) == UNION { F(x) : x \in S }

\* F of the value of v: a call whose argument is computed once, before it
Let(v, F(_)) == CHOOSE r \in { F(x) : x \in {v} } : TRUE

(***************************************************************************)
(* Map<K,V>: a function whose domain is the set of stored keys             *)
(***************************************************************************)
EmptyMap == <<>>

MapHas(map, k) == k \in DOMAIN map

MapSet(map, k, v) == [x \in (DOMAIN map) \cup {k} |-> IF x = k THEN v ELSE map[x]]

MapDelete(map, k) == [x \in (DOMAIN map) \ {k} |-> map[x]]

\* effects.get(k) || 0
GetOr0(map, k) == IF k \in DOMAIN map THEN map[k] ELSE 0

\* if (effects.get(k)): undefined and 0 are falsy, every other number truthy
Truthy(map, k) == k \in DOMAIN map /\ map[k] # 0

(***************************************************************************)
(* Content tables                                                          *)
(***************************************************************************)
\* a CardEffect; "" and 0 stand for an omitted optional field
Effect(type, value) ==
  [type |-> type, value |-> value, target |-> "", statusId |-> "", cardId |-> "", times |-> 0]

EffectT(type, value, times) == [Effect(type, value) EXCEPT !.times = times]

EffectS(value, statusId) == [Effect("apply_status", value) EXCEPT !.statusId = statusId]

EffectSelf(type, value) == [Effect(type, value) EXCEPT !.target = "self"]

Card(type, rarity, cost, target, effects, hasUpgraded, effectsUpgraded, keywords) ==
  [type |-> type, rarity |-> rarity, cost |-> cost, target |-> target, effects |-> effects,
   hasUpgraded |-> hasUpgraded, effectsUpgraded |-> effectsUpgraded, keywords |-> keywords]

\* insertion order of the modelled part of the card table
CardOrder ==
  <<"strike", "defend", "bash", "cleave", "pommel_strike", "sword_boomerang", "twin_strike",
    "flex", "dropkick", "hemokinesis", "bludgeon", "brutality", "wound">>

CardDatabase ==
  [id \in {CardOrder[i] : i \in 1..Len(CardOrder)} |->
    CASE id = "strike" ->
           Card("attack", "starter", 1, "enemy", <<Effect("damage", 6)>>, TRUE,
                <<Effect("damage", 9)>>, {})
      [] id = "defend" ->
           Card("skill", "starter", 1, "self", <<Effect("block", 5)>>, TRUE,
                <<Effect("block", 8)>>, {})
      [] id = "bash" ->
           Card("attack", "starter", 2, "enemy",
                <<Effect("damage", 8), EffectS(2, "vulnerable")>>, TRUE,
                <<Effect("damage", 10), EffectS(3, "vulnerable")>>, {})
      [] id = "cleave" ->
           Card("attack", "common", 1, "all_enemies", <<Effect("damage_all", 8)>>, TRUE,
                <<Effect("damage_all", 11)>>, {})
      [] id = "pommel_strike" ->
           Card("attack", "common", 1, "enemy",
                <<Effect("damage", 9), Effect("draw", 1)>>, TRUE,
                <<Effect("damage", 10), Effect("draw", 2)>>, {})
      [] id = "sword_boomerang" ->
           Card("attack", "common", 1, "random_enemy", <<EffectT("damage", 3, 3)>>, TRUE,
                <<EffectT("damage", 3, 4)>>, {})
      [] id = "twin_strike" ->
           Card("attack", "common", 1, "enemy", <<EffectT("damage", 5, 2)>>, TRUE,
                <<EffectT("damage", 7, 2)>>, {})
      [] id = "flex" ->
           Card("skill", "common", 0, "self",
                <<EffectS(2, "strength"), EffectS(2, "strength_down_eot")>>, TRUE,
                <<EffectS(4, "strength"), EffectS(4, "strength_down_eot")>>, {})
      [] id = "dropkick" ->
           Card("attack", "uncommon", 1, "enemy",
                <<Effect("damage", 5), Effect("conditional", 1)>>, TRUE,
                <<Effect("damage", 8), Effect("conditional", 1)>>, {})
      [] id = "hemokinesis" ->
           Card("attack", "uncommon", 1, "enemy",
                <<EffectSelf("damage", -2), Effect("damage", 15)>>, TRUE,
                <<EffectSelf("damage", -2), Effect("damage", 20)>>, {})
      [] id = "bludgeon" ->
           Card("attack", "rare", 3, "enemy", <<Effect("damage", 32)>>, TRUE,
                <<Effect("damage", 42)>>, {})
      [] id = "brutality" ->
           Card("power", "rare", 0, "self", <<EffectS(1, "brutality")>>, FALSE, <<>>,
                {"innate"})
      [] id = "wound" ->
           Card("status", "special", -1, "none", <<>>, FALSE, <<>>, {"unplayable"})]

\* CardDatabase.get / getCard: is the id in the table
KnownCard(cardId) == cardId \in DOMAIN CardDatabase

\* an entry of an action pattern: "type:value" is Action(type, value, 0),
\* "type:valuexcount" is Action(type, value, count), and a string without
\* ":value" (e.g. "escape") is Action(type, NULL, 0)
Action(type, value, count) == [type |-> type, value |-> value, count |-> count]

Enemy(lo, hi, pattern, aiType, isElite, isBoss) ==
  [health |-> <<lo, hi>>, pattern |-> pattern, aiType |-> aiType, isElite |-> isElite,
   isBoss |-> isBoss]

EnemyDatabase ==
  [id \in {"jaw_worm", "louse_red", "louse_green", "looter", "sentries"} |->
    CASE id = "jaw_worm" ->
           Enemy(40, 44, <<Action("attack", 11, 0), Action("defend", 6, 0), Action("buff", 3, 0)>>,
                 "random", FALSE, FALSE)
      [] id = "louse_red" ->
           Enemy(10, 15, <<Action("attack", 6, 0), Action("attack", 6, 0), Action("buff", 3, 0)>>,
                 "sequential", FALSE, FALSE)
      [] id = "louse_green" ->
           Enemy(11, 17, <<Action("attack", 6, 0), Action("debuff", 2, 0), Action("attack", 6, 0)>>,
                 "sequential", FALSE, FALSE)
      [] id = "looter" ->
           Enemy(44, 48, <<Action("attack", 10, 0), Action("attack", 10, 0),
                           Action("defend", 6, 0), Action("escape", NULL, 0)>>,
                 "sequential", FALSE, FALSE)
      [] id = "sentries" ->
           Enemy(38, 42, <<Action("attack", 9, 0), Action("defend", 9, 0), Action("attack", 9, 0)>>,
                 "sequential", TRUE, FALSE)]

(***************************************************************************)
(* World (core/ecs/ECS.ts)                                                 *)
(***************************************************************************)
ComponentTypes == {"health", "block", "energy", "statusEffects", "intent", "enemyAI"}

\* World.clear, and the World after construction
clear ==
  [nextEntityId |-> 0, entities |-> <<>>, components |-> [t \in ComponentTypes |-> EmptyMap],
   entityTags |-> EmptyMap, tagEntities |-> EmptyMap]

hasEntity(w, id) == \E i \in 1..Len(w.entities) : w.entities[i] = id

createEntity(w) ==
  [w EXCEPT !.nextEntityId = @ + 1, !.entities = Append(@, w.nextEntityId),
            !.entityTags = MapSet(@, w.nextEntityId, {})]

\* the sequence without the element id
Without(seq, id) == SelectSeq(seq, LAMBDA x : x # id)

\* destroyEntity leaving the tag index as it is
destroyEntity_keepsTagIndex(w, id) ==
  IF ~hasEntity(w, id) THEN w
  ELSE [w EXCEPT !.components = [t \in ComponentTypes |-> MapDelete(@[t], id)],
                 !.entityTags = MapDelete(@, id),
                 !.entities = Without(@, id)]

destroyEntity(w, id) ==
  IF ~hasEntity(w, id) THEN w
  ELSE [w EXCEPT !.components = [t \in ComponentTypes |-> MapDelete(@[t], id)],
                 !.tagEntities = [t \in DOMAIN @ |->
                                    IF MapHas(w.entityTags, id) /\ t \in w.entityTags[id]
                                    THEN Without(@[t], id) ELSE @[t]],
                 !.entityTags = MapDelete(@, id),
                 !.entities = Without(@, id)]

\* addComponent throws Error('Entity .. does not exist')
addComponentThrows(w, id) == ~hasEntity(w, id)

\* addComponent storing the component without looking for the entity
addComponent_unchecked(w, id, type, component) ==
  [w EXCEPT !.components[type] = MapSet(@, id, component)]

\* addComponent: the throw comes before any change of the World
addComponent(w, id, type, component) ==
  IF addComponentThrows(w, id) THEN w
  ELSE [w EXCEPT !.components[type] = MapSet(@, id, component)]

hasComponent(w, id, type) == MapHas(w.components[type], id)

getComponent(w, id, type) == w.components[type][id]

\* Set.add: the element goes to the end unless it is in the set
SetAdd(seq, id) == IF \E i \in 1..Len(seq) : seq[i] = id THEN seq ELSE Append(seq, id)

\* addTag recording the tag without looking for the entity
addTag_unchecked(w, id, tag) ==
  [w EXCEPT !.entityTags = IF MapHas(@, id) THEN MapSet(@, id, @[id] \cup {tag}) ELSE @,
            !.tagEntities = MapSet(@, tag, SetAdd(IF MapHas(@, tag) THEN @[tag] ELSE <<>>, id))]

addTag(w, id, tag) ==
  IF ~hasEntity(w, id) THEN w
  ELSE [w EXCEPT !.entityTags = IF MapHas(@, id) THEN MapSet(@, id, @[id] \cup {tag}) ELSE @,
                 !.tagEntities = MapSet(@, tag, SetAdd(IF MapHas(@, tag) THEN @[tag] ELSE <<>>, id))]

\* removeTag: both indexes drop the pair, whether or not the entity exists
removeTag(w, id, tag) ==
  [w EXCEPT !.entityTags = IF MapHas(@, id) THEN MapSet(@, id, @[id] \ {tag}) ELSE @,
            !.tagEntities = IF MapHas(@, tag) THEN MapSet(@, tag, Without(@[tag], id)) ELSE @]

hasTag(w, id, tag) == MapHas(w.entityTags, id) /\ tag \in w.entityTags[id]

getEntitiesByTag(w, tag) == IF MapHas(w.tagEntities, tag) THEN w.tagEntities[tag] ELSE <<>>

removeComponent(w, id, type) == [w EXCEPT !.components[type] = MapDelete(@, id)]

\* query returning the entities that hold one of the listed components
query_anyKind(w, componentTypes) ==
  SelectSeq(w.entities, LAMBDA id : \E type \in componentTypes : hasComponent(w, id, type))

\* query(...componentTypes): the entities holding every listed component
query(w, componentTypes) ==
  SelectSeq(w.entities, LAMBDA id : \A type \in componentTypes : hasComponent(w, id, type))

\* the status map of an entity, the empty map when it has no such component
\* (statusEffects?.effects.get(..) is then undefined)
effectsOf(w, id) ==
  IF hasComponent(w, id, "statusEffects") THEN getComponent(w, id, "statusEffects").effects
  ELSE EmptyMap

setEffect(w, id, statusId, v) ==
  [w EXCEPT !.components["statusEffects"][id].effects = MapSet(@, statusId, v)]

deleteEffect(w, id, statusId) ==
  [w EXCEPT !.components["statusEffects"][id].effects = MapDelete(@, statusId)]

\* Array.from of a Set or of the entries of a Map
RECURSIVE ToArray(_)
ToArray(S) ==
  IF S = {} THEN <<>> ELSE LET x == CHOOSE y \in S : TRUE IN <<x>> \o ToArray(S \ {x})

\* the keys of an object filled with entity ids, as Object.entries visits
\* them: integer keys in ascending order
RECURSIVE Ascending(_)
Ascending(S) ==
  IF S = {} THEN <<>>
  ELSE LET x == CHOOSE y \in S : \A z \in S : y <= z IN <<x>> \o Ascending(S \ {x})

\* the saved form of a component: the status map becomes its entries
serializeComponent(type, component) ==
  IF type = "statusEffects"
  THEN [component EXCEPT !.effects = ToArray({ <<k, @[k]>> : k \in DOMAIN @ })]
  ELSE component

serialize(w) ==
  [nextEntityId |-> w.nextEntityId,
   entities |-> w.entities,
   components |-> [type \in ComponentTypes |->
                    [id \in DOMAIN w.components[type] |->
                      serializeComponent(type, w.components[type][id])]],
   tags |-> [id \in DOMAIN w.entityTags |-> ToArray(w.entityTags[id])]]

\* new Map(entries)
RECURSIVE newMap(_, _)
newMap(entries, i) ==
  IF i = 0 THEN EmptyMap ELSE MapSet(newMap(entries, i - 1), entries[i][1], entries[i][2])

deserializeComponent(type, component) ==
  IF type = "statusEffects"
  THEN [component EXCEPT !.effects = newMap(@, Len(@))]
  ELSE component

\* the tag index of deserialize after the tags of entity id
RECURSIVE tagEach(_, _, _, _)
tagEach(tagEntities, tags, i, id) ==
  IF i > Len(tags) THEN tagEntities
  ELSE tagEach(MapSet(tagEntities, tags[i],
                      SetAdd(IF MapHas(tagEntities, tags[i]) THEN tagEntities[tags[i]] ELSE <<>>, id)),
               tags, i + 1, id)

\* the last loop of deserialize filling entityTags alone
RECURSIVE deserializeTags_oneIndex(_, _, _, _)
deserializeTags_oneIndex(w, tags, ids, i) ==
  IF i > Len(ids) THEN w
  ELSE deserializeTags_oneIndex(
         [w EXCEPT !.entityTags = MapSet(@, ids[i], { tags[ids[i]][j] : j \in 1..Len(tags[ids[i]]) })],
         tags, ids, i + 1)

\* the last loop of deserialize: the saved tags of every entity go to both
\* indexes
RECURSIVE deserializeTags(_, _, _, _)
deserializeTags(w, tags, ids, i) ==
  IF i > Len(ids) THEN w
  ELSE deserializeTags(
         [w EXCEPT !.entityTags = MapSet(@, ids[i], { tags[ids[i]][j] : j \in 1..Len(tags[ids[i]]) }),
                   !.tagEntities = tagEach(@, tags[ids[i]], 1, ids[i])],
         tags, ids, i + 1)

deserialize(data) ==
  deserializeTags(
    [clear EXCEPT !.nextEntityId = data.nextEntityId,
                  !.entities = data.entities,
                  !.entityTags = [id \in { data.entities[i] : i \in 1..Len(data.entities) } |-> {}],
                  !.components = [type \in ComponentTypes |->
                                   [id \in DOMAIN data.components[type] |->
                                     deserializeComponent(type, data.components[type][id])]]],
    data.tags, Ascending(DOMAIN data.tags), 1)

(***************************************************************************)
(* Seeded random stream (core/rng/SeededRNG.ts).  The 64-bit xorshift128+  *)
(* state is modelled by a small full-period congruential state: what the   *)
(* callers depend on is that every draw is a function of the stream state  *)
(* and advances it.                                                        *)
(***************************************************************************)
RngMod == 100

\* state after one next()
next(s) == (21 * s + 17) % RngMod

\* state after n draws
RECURSIVE nextN(_, _)
nextN(s, n) == IF n <= 0 THEN s ELSE nextN(next(s), n - 1)

\* randInt(min, max) drawn in state s: floor(random() * (max - min)) + min
randInt(s, min, max) == ((s * (max - min)) \div RngMod) + min

\* pick(array) drawn in state s (the array is not empty)
pick(s, array) == array[randInt(s, 0, Len(array)) + 1]

\* hashSeed: the state a seed string starts from, folded over its characters
\* (a string is the sequence of its character codes)
RECURSIVE hashSeed(_)
hashSeed(seed) ==
  IF seed = <<>> THEN 57
  ELSE (31 * hashSeed(SubSeq(seed, 1, Len(seed) - 1)) + seed[Len(seed)]) % RngMod

\* new SeededRNG(seed)
SeededRNG(seed) == [initialSeed |-> seed, state |-> hashSeed(seed), streams |-> EmptyMap]

\* the character codes of the stream names and of "_"
Chars(name) ==
  CASE name = "_" -> <<95>>
    [] name = "combat" -> <<99, 111, 109, 98, 97, 116>>
    [] name = "rewards" -> <<114, 101, 119, 97, 114, 100, 115>>
    [] name = "items" -> <<105, 116, 101, 109, 115>>

\* getStream making a new stream at every call
getStream_reseeds(r, name) ==
  [r EXCEPT !.streams = MapSet(@, name, SeededRNG(r.initialSeed \o Chars("_") \o Chars(name)))]

\* getStream(name): the generator r after the call; the stream returned is
\* r.streams[name]
getStream(r, name) ==
  IF MapHas(r.streams, name) THEN r
  ELSE [r EXCEPT !.streams = MapSet(@, name, SeededRNG(r.initialSeed \o Chars("_") \o Chars(name)))]

(***************************************************************************)
(* Pile store (core/store.ts)                                              *)
(***************************************************************************)
RECURSIVE drawLoop(_, _, _, _)
drawLoop(hand, drawPile, discardPile, count) ==
  IF count = 0 THEN {[hand |-> hand, drawPile |-> drawPile, discardPile |-> discardPile]}
  ELSE IF drawPile = <<>>
       THEN IF discardPile = <<>>
            THEN {[hand |-> hand, drawPile |-> drawPile, discardPile |-> discardPile]}
            ELSE UNION { drawLoop(Append(hand, p[Len(p)]), SubSeq(p, 1, Len(p) - 1), <<>>, count - 1) :
                         p \in Shuffles(discardPile) }
       ELSE drawLoop(Append(hand, drawPile[Len(drawPile)]),
                     SubSeq(drawPile, 1, Len(drawPile) - 1), discardPile, count - 1)

\* the stores drawCards(count) can produce
drawCards(st, count) ==
  { [st EXCEPT !.hand = r.hand, !.drawPile = r.drawPile, !.discardPile = r.discardPile] :
      r \in drawLoop(st.hand, st.drawPile, st.discardPile, Max(count, 0)) }

\* playCard that copies the card to the discard pile and leaves it in the hand
playCard_keepsInHand(st, handIndex) ==
  IF handIndex < 0 \/ handIndex >= Len(st.hand) THEN st
  ELSE [st EXCEPT !.discardPile = Append(@, st.hand[handIndex + 1])]

\* playCard(handIndex), handIndex counted from 0
playCard(st, handIndex) ==
  IF handIndex < 0 \/ handIndex >= Len(st.hand) THEN st
  ELSE [st EXCEPT !.hand = SubSeq(st.hand, 1, handIndex) \o SubSeq(st.hand, handIndex + 2, Len(st.hand)),
                  !.discardPile = Append(@, st.hand[handIndex + 1])]

discardHand(st) == [st EXCEPT !.discardPile = @ \o st.hand, !.hand = <<>>]

(***************************************************************************)
(* EventBus (core/events/EventBus.ts).  A handler is named by a number; a  *)
(* Set of handlers is the sequence of its members in insertion order.      *)
(* "calls" is what the handlers were called with and "console" what        *)
(* console.error printed, both during the last call on the bus.            *)
(***************************************************************************)
NewEventBus ==
  [handlers |-> EmptyMap, history |-> <<>>, historyEnabled |-> FALSE, maxHistory |-> 1000,
   calls |-> <<>>, console |-> <<>>]

\* handlers.get(eventType), the empty sequence when there is no Set
handlersOf(b, eventType) ==
  IF MapHas(b.handlers, eventType) THEN b.handlers[eventType] ELSE <<>>

on(b, eventType, handler) ==
  LET had == handlersOf(b, eventType)
  IN  [b EXCEPT !.handlers =
         MapSet(@, eventType,
                IF \E i \in 1..Len(had) : had[i] = handler THEN had ELSE Append(had, handler))]

off(b, eventType, handler) ==
  IF MapHas(b.handlers, eventType)
  THEN [b EXCEPT !.handlers[eventType] = SelectSeq(@, LAMBDA h : h # handler)]
  ELSE b

enableHistory(b, maxEvents) == [b EXCEPT !.historyEnabled = TRUE, !.maxHistory = maxEvents]

\* what the subscribers do when called: handlers 2 and 4 throw, handlers 3
\* and 4 are wrappers made by once, which unsubscribe themselves first
Throws(handler) == handler \in {2, 4}

IsOnce(handler) == handler \in {3, 4}

\* handler(payload), subscribed under eventType: the bus after the call, and
\* whether the call threw
callHandler(b, eventType, handler, payload) ==
  [bus |-> [(IF IsOnce(handler) THEN off(b, eventType, handler) ELSE b)
              EXCEPT !.calls = Append(@, [handler |-> handler, payload |-> payload])],
   thrown |-> Throws(handler)]

\* the call of a handler without the try around it
tryCall_uncaught(b, eventType, handler, payload) == callHandler(b, eventType, handler, payload)

\* try { handler(payload) } catch (error) { console.error(..) }
tryCall(b, eventType, handler, payload) ==
  LET r == callHandler(b, eventType, handler, payload)
  IN  IF r.thrown
      THEN [bus |-> [r.bus EXCEPT !.console = Append(@, eventType)], thrown |-> FALSE]
      ELSE r

\* for (const handler of handlers), from the i-th member on: an exception
\* that leaves the loop body ends the loop.  The handlers modelled remove at
\* most themselves from the Set, so the members visited are those of the
\* Set when the loop started.
RECURSIVE callEach(_, _, _, _, _)
callEach(b, eventType, handlers, i, payload) ==
  IF i > Len(handlers) THEN [bus |-> b, thrown |-> FALSE]
  ELSE LET r == tryCall(b, eventType, handlers[i], payload)
       IN  IF r.thrown THEN r ELSE callEach(r.bus, eventType, handlers, i + 1, payload)

\* EventBus.emit(eventType, data): the bus after it, and whether it threw
busEmit(b, eventType, data) ==
  LET pushed == Append(b.history, [type |-> eventType, data |-> data])
      b1 == IF b.historyEnabled
            THEN [b EXCEPT !.history = IF Len(pushed) > b.maxHistory THEN Tail(pushed) ELSE pushed]
            ELSE b
      r == IF MapHas(b1.handlers, eventType)
           THEN callEach(b1, eventType, b1.handlers[eventType], 1, data)
           ELSE [bus |-> b1, thrown |-> FALSE]
  IN  IF r.thrown THEN r
      ELSE IF MapHas(r.bus.handlers, "*")
           THEN callEach(r.bus, "*", r.bus.handlers["*"], 1, [type |-> eventType, data |-> data])
           ELSE r

(***************************************************************************)
(* Event bus: emit appends to the events of the running entry point; the   *)
(* subscribers that change combat state are applied where they are emitted *)
(***************************************************************************)
emit(m, e) == [m EXCEPT !.events = Append(@, e)]

(***************************************************************************)
(* CardEffectResolver (combat/cards/CardTypes.ts).  m is the machine: the  *)
(* record of state, world, store, rng, events, trace and tally.            *)
(***************************************************************************)
\* Floor075 rounding to the nearest integer, as Math.round would
Floor075_rounds(d) == (3 * d + 2) \div 4

\* Math.floor(damage * 0.75)
Floor075(d) == (3 * d) \div 4

\* Math.floor(damage * 1.5)
Floor150(d) == (3 * d) \div 2

\* outgoing damage of the source: strength, then weak (attacks only)
outgoingDamage(w, sourceId, baseDamage, isAttack) ==
  LET hasStatus == hasComponent(w, sourceId, "statusEffects")
      withStrength == IF isAttack /\ hasStatus
                      THEN baseDamage + GetOr0(effectsOf(w, sourceId), "strength")
                      ELSE baseDamage
  IN  IF isAttack /\ Truthy(effectsOf(w, sourceId), "weak") THEN Floor075(withStrength)
      ELSE withStrength

\* incoming damage at the target: vulnerable (attacks only), then intangible
incomingDamage(w, targetId, damage, isAttack) ==
  LET vulnerable == IF isAttack /\ Truthy(effectsOf(w, targetId), "vulnerable")
                    THEN Floor150(damage) ELSE damage
  IN  IF Truthy(effectsOf(w, targetId), "intangible") THEN 1 ELSE vulnerable

\* healthAfter without the clamp at 0
healthAfter_unclamped(current, damage) == current - damage

\* Math.max(0, targetHealth.current - damage)
healthAfter(current, damage) == Max(0, current - damage)

\* one pass of applyDamage up to and including the damage event
applyDamageOnce(m, sourceId, targetId, baseDamage, isAttack) ==
  LET w == m.world
      damage == incomingDamage(w, targetId, outgoingDamage(w, sourceId, baseDamage, isAttack), isAttack)
      hasBlock == hasComponent(w, targetId, "block") /\ getComponent(w, targetId, "block").amount > 0
      blocked == IF hasBlock THEN Min(getComponent(w, targetId, "block").amount, damage) ELSE 0
      w1 == IF hasBlock THEN [w EXCEPT !.components["block"][targetId].amount = @ - blocked] ELSE w
      rest == damage - blocked
      w2 == IF rest > 0 /\ hasComponent(w1, targetId, "health")
            THEN [w1 EXCEPT !.components["health"][targetId].current = healthAfter(@, rest)]
            ELSE w1
  IN  emit([m EXCEPT !.world = w2],
           [type |-> "combat:damage", sourceId |-> sourceId, targetId |-> targetId,
            amount |-> baseDamage, blocked |-> blocked, isAttack |-> isAttack])

\* applyDamage reflecting the thorns as attack damage of the target
applyDamage_reflectsAsAttack(m, sourceId, targetId, baseDamage, isAttack) ==
  LET thorns == effectsOf(m.world, targetId)
  IN  Let(applyDamageOnce(m, sourceId, targetId, baseDamage, isAttack),
          LAMBDA m1 : IF isAttack /\ Truthy(thorns, "thorns")
                      THEN applyDamageOnce(m1, targetId, sourceId, thorns["thorns"], TRUE)
                      ELSE m1)

\* applyDamage: the hit, then the thorns of the target reflected as non-attack
\* damage (the reflected call has isAttack false and reflects nothing back)
applyDamage(m, sourceId, targetId, baseDamage, isAttack) ==
  LET thorns == effectsOf(m.world, targetId)
  IN  Let(applyDamageOnce(m, sourceId, targetId, baseDamage, isAttack),
          LAMBDA m1 : IF isAttack /\ Truthy(thorns, "thorns")
                      THEN applyDamageOnce(m1, targetId, sourceId, thorns["thorns"], FALSE)
                      ELSE m1)

\* resolveDamage: the machines it can produce (Math.random picks the enemy
\* of a random_enemy card)
resolveDamage(m, effect, sourceId, targetId, cardTarget) ==
  IF effect.value < 0 \/ effect.target = "self"
  THEN {applyDamage(m, sourceId, sourceId, Abs(effect.value), FALSE)}
  ELSE LET enemies == getEntitiesByTag(m.world, "enemy")
           targets == IF cardTarget = "random_enemy" /\ Len(enemies) > 0
                      THEN {enemies[i] : i \in 1..Len(enemies)}
                      ELSE {targetId}
       IN  { IF t = NULL THEN m ELSE applyDamage(m, sourceId, t, effect.value, TRUE) : t \in targets }

RECURSIVE damageEach(_, _, _, _, _)
damageEach(m, enemies, i, sourceId, value) ==
  IF i > Len(enemies) THEN m
  ELSE Let(applyDamage(m, sourceId, enemies[i], value, TRUE),
           LAMBDA x : damageEach(x, enemies, i + 1, sourceId, value))

resolveDamageAll(m, effect, sourceId) ==
  damageEach(m, getEntitiesByTag(m.world, "enemy"), 1, sourceId, effect.value)

resolveBlock(m, effect, sourceId) ==
  LET w == m.world
      withDexterity == IF hasComponent(w, sourceId, "statusEffects")
                       THEN effect.value + GetOr0(effectsOf(w, sourceId), "dexterity")
                       ELSE effect.value
      blockAmount == IF Truthy(effectsOf(w, sourceId), "frail") THEN Floor075(withDexterity)
                     ELSE withDexterity
      w1 == IF hasComponent(w, sourceId, "block")
            THEN [w EXCEPT !.components["block"][sourceId].amount = @ + Max(0, blockAmount)]
            ELSE w
  IN  emit([m EXCEPT !.world = w1],
           [type |-> "combat:block_gained", entityId |-> sourceId, amount |-> blockAmount])

\* resolveDraw: the card-drawn event is served at once by the state machine's
\* subscriber, which draws from the pile store
resolveDraw(m, effect, sourceId) ==
  IF Truthy(effectsOf(m.world, sourceId), "no_draw") THEN {m}
  ELSE LET m1 == emit(m, [type |-> "combat:card_drawn", entityId |-> sourceId, count |-> effect.value])
       IN  { [m1 EXCEPT !.store = st] : st \in drawCards(m.store, effect.value) }

resolveEnergy(m, effect, sourceId) ==
  LET w1 == IF hasComponent(m.world, sourceId, "energy")
            THEN [m.world EXCEPT !.components["energy"][sourceId].current = @ + effect.value]
            ELSE m.world
  IN  emit([m EXCEPT !.world = w1],
           [type |-> "combat:energy_changed", entityId |-> sourceId, change |-> effect.value])

\* the statuses resolveApplyStatus treats as debuffs
Debuffs == {"vulnerable", "weak", "frail", "poison"}

\* the body of the loop of resolveApplyStatus for one target
applyStatusTo(m, effect, target) ==
  LET w == m.world
      effects == effectsOf(w, target)
  IN  IF ~hasComponent(w, target, "statusEffects") THEN m
      ELSE IF effect.statusId \in Debuffs /\ Truthy(effects, "artifact") /\ effects["artifact"] > 0
      THEN emit([m EXCEPT !.world = setEffect(w, target, "artifact", effects["artifact"] - 1)],
                [type |-> "status:triggered", targetId |-> target, statusId |-> "artifact"])
      ELSE emit([m EXCEPT !.world = setEffect(w, target, effect.statusId,
                                              GetOr0(effects, effect.statusId) + effect.value)],
                [type |-> "status:applied", targetId |-> target, statusId |-> effect.statusId,
                 stacks |-> effect.value])

RECURSIVE applyStatusEach(_, _, _, _)
applyStatusEach(m, effect, targets, i) ==
  IF i > Len(targets) THEN m
  ELSE Let(applyStatusTo(m, effect, targets[i]),
           LAMBDA x : applyStatusEach(x, effect, targets, i + 1))

resolveApplyStatus(m, effect, sourceId, targetId, cardTarget) ==
  IF effect.statusId = "" THEN m
  ELSE LET targets == IF effect.target = "all_enemies" \/ cardTarget = "all_enemies"
                      THEN getEntitiesByTag(m.world, "enemy")
                      ELSE IF effect.target = "self" \/ cardTarget = "self" THEN <<sourceId>>
                      ELSE IF targetId # NULL THEN <<targetId>>
                      ELSE <<>>
       IN  applyStatusEach(m, effect, targets, 1)

resolveHeal(m, effect, sourceId, targetId) ==
  LET target == IF effect.target = "self" THEN sourceId ELSE targetId
      w == m.world
      w1 == IF hasComponent(w, target, "health")
            THEN [w EXCEPT !.components["health"][target].current =
                             Min(getComponent(w, target, "health").max, @ + effect.value)]
            ELSE w
  IN  IF target = NULL THEN m
      ELSE emit([m EXCEPT !.world = w1],
                [type |-> "combat:heal", targetId |-> target, amount |-> effect.value])

\* resolveAddCard only emits; the subscriber in the state machine is empty
resolveAddCard(m, effect) ==
  IF effect.cardId = "" THEN m
  ELSE emit(m, [type |-> "combat:add_card", cardId |-> effect.cardId, destination |-> effect.type])

\* the default branch of the switch dropping the draw pile
unhandledEffect_dropsDrawPile(m, effect) == [m EXCEPT !.store.drawPile = <<>>]

\* the default branch of the switch: console.warn('Unhandled effect type')
unhandledEffect(m, effect) == m

\* one iteration of the loop of resolveEffect: the switch on the effect kind
resolveEffectOnce(m, effect, sourceId, targetId, cardTarget) ==
  CASE effect.type = "damage" -> resolveDamage(m, effect, sourceId, targetId, cardTarget)
    [] effect.type = "damage_all" -> {resolveDamageAll(m, effect, sourceId)}
    [] effect.type = "block" -> {resolveBlock(m, effect, sourceId)}
    [] effect.type = "draw" -> resolveDraw(m, effect, sourceId)
    [] effect.type = "energy" -> {resolveEnergy(m, effect, sourceId)}
    [] effect.type = "apply_status" -> {resolveApplyStatus(m, effect, sourceId, targetId, cardTarget)}
    [] effect.type = "heal" -> {resolveHeal(m, effect, sourceId, targetId)}
    [] effect.type \in {"add_card_to_discard", "add_card_to_draw", "add_card_to_hand"} ->
         {resolveAddCard(m, effect)}
    [] OTHER -> {unhandledEffect(m, effect)}

RECURSIVE resolveEffectTimes(_, _, _, _, _, _)
resolveEffectTimes(m, effect, sourceId, targetId, cardTarget, times) ==
  IF times <= 0 THEN {m}
  ELSE Bind(resolveEffectOnce(m, effect, sourceId, targetId, cardTarget),
            LAMBDA x : resolveEffectTimes(x, effect, sourceId, targetId, cardTarget, times - 1))

\* resolveEffect(effect, sourceId, targetId, card): card.target is all it
\* reads of the card
resolveEffect(m, effect, sourceId, targetId, cardTarget) ==
  resolveEffectTimes(m, effect, sourceId, targetId, cardTarget,
                     IF effect.times = 0 THEN 1 ELSE effect.times)

\* resolveEffects going through the effects of the card from the last to the
\* first
RECURSIVE resolveEffects_reversed(_, _, _, _, _, _)
resolveEffects_reversed(m, effects, i, sourceId, targetId, cardTarget) ==
  IF i > Len(effects) THEN {m}
  ELSE Bind(resolveEffect(m, effects[Len(effects) - i + 1], sourceId, targetId, cardTarget),
            LAMBDA x : resolveEffects_reversed(x, effects, i + 1, sourceId, targetId, cardTarget))

\* the loop of resolveCard over the effects of the card, from index i
RECURSIVE resolveEffects(_, _, _, _, _, _)
resolveEffects(m, effects, i, sourceId, targetId, cardTarget) ==
  IF i > Len(effects) THEN {m}
  ELSE Bind(resolveEffect(m, effects[i], sourceId, targetId, cardTarget),
            LAMBDA x : resolveEffects(x, effects, i + 1, sourceId, targetId, cardTarget))

\* resolveCard after the lookup, for the definition the table returned
resolveCardDef(m, cardId, card, sourceId, targetId, upgraded) ==
  LET effects == IF upgraded /\ card.hasUpgraded THEN card.effectsUpgraded ELSE card.effects
  IN  { emit(x, [type |-> "combat:card_played", cardId |-> cardId, sourceId |-> sourceId,
                 targetId |-> targetId, cost |-> card.cost]) :
          x \in resolveEffects(m, effects, 1, sourceId, targetId, card.target) }

\* the unknown card id answered with a card-played notification
cardNotFound_emits(m, cardId) ==
  emit(m, [type |-> "combat:card_played", cardId |-> cardId, sourceId |-> NULL,
           targetId |-> NULL, cost |-> 0])

\* if (!card): console.warn('Card not found') and return
cardNotFound(m, cardId) == m

resolveCard(m, cardId, sourceId, targetId, upgraded) ==
  IF ~KnownCard(cardId) THEN {cardNotFound(m, cardId)}
  ELSE resolveCardDef(m, cardId, CardDatabase[cardId], sourceId, targetId, upgraded)

(***************************************************************************)
(* createEnemyEntity (combat/enemies/EnemyDatabase.ts)                     *)
(***************************************************************************)
\* the entity of enemy definition def with rolled health, added to world w
enemyEntity(w, def, health) ==
  LET id == w.nextEntityId
      w1 == addTag(createEntity(w), id, "enemy")
      w2 == IF def.isElite THEN addTag(w1, id, "elite") ELSE w1
      w3 == IF def.isBoss THEN addTag(w2, id, "boss") ELSE w2
      w4 == addComponent(w3, id, "health", [current |-> health, max |-> health])
      w5 == addComponent(w4, id, "block", [amount |-> 0])
      w6 == addComponent(w5, id, "statusEffects", [effects |-> EmptyMap])
      w7 == addComponent(w6, id, "intent", [action |-> "unknown", value |-> 0, multiHit |-> 0])
  IN  addComponent(w7, id, "enemyAI",
                   [pattern |-> def.pattern, patternIndex |-> 0, aiType |-> def.aiType])

\* createEnemyEntity: the pairs <<world, created id or NULL>> it can produce;
\* Math.random rolls the health within the range of the definition
createEnemyEntity(w, enemyId) ==
  IF enemyId \notin DOMAIN EnemyDatabase THEN {<<w, NULL>>}
  ELSE LET def == EnemyDatabase[enemyId]
       IN  { <<enemyEntity(w, def, h), w.nextEntityId>> : h \in def.health[1]..def.health[2] }

(***************************************************************************)
(* CombatStateMachine (combat/state/CombatStateMachine.ts)                 *)
(***************************************************************************)
Terminal == {"victory", "defeat"}

\* the assignment this.state.phase = phase of transitionTo
setPhase(m, phase) == [m EXCEPT !.state.phase = phase, !.trace = Append(@, phase)]

\* decrementTurnEffects on one status map
RECURSIVE decrementEach(_, _, _)
decrementEach(effects, toDecrement, i) ==
  IF i > Len(toDecrement) THEN effects
  ELSE LET effectId == toDecrement[i]
           e1 == IF MapHas(effects, effectId) /\ effects[effectId] > 0
                 THEN IF effects[effectId] - 1 <= 0 THEN MapDelete(effects, effectId)
                      ELSE MapSet(effects, effectId, effects[effectId] - 1)
                 ELSE effects
       IN  decrementEach(e1, toDecrement, i + 1)

\* the removal loop dropping strength_down_eot without touching strength
RECURSIVE removeEach_keepsStrength(_, _, _)
removeEach_keepsStrength(effects, toRemove, i) ==
  IF i > Len(toRemove) THEN effects
  ELSE removeEach_keepsStrength(MapDelete(effects, toRemove[i]), toRemove, i + 1)

RECURSIVE removeEach(_, _, _)
removeEach(effects, toRemove, i) ==
  IF i > Len(toRemove) THEN effects
  ELSE LET effectId == toRemove[i]
           e1 == IF ~MapHas(effects, effectId) THEN effects
                 ELSE IF effectId = "strength_down_eot"
                 THEN MapDelete(MapSet(effects, "strength",
                                       GetOr0(effects, "strength") - effects[effectId]), effectId)
                 ELSE MapDelete(effects, effectId)
       IN  removeEach(e1, toRemove, i + 1)

\* decrementTurnEffects clearing the turn-scoped statuses instead of
\* decrementing them
decrementTurnEffects_clearsDebuffs(effects) ==
  removeEach(removeEach(effects, <<"vulnerable", "weak", "frail", "intangible", "no_draw">>, 1),
             <<"flame_barrier", "rage", "strength_down_eot">>, 1)

decrementTurnEffects(effects) ==
  removeEach(decrementEach(effects, <<"vulnerable", "weak", "frail", "intangible", "no_draw">>, 1),
             <<"flame_barrier", "rage", "strength_down_eot">>, 1)

\* rarity pools of generateCardRewards, in table order
Pool(rarity) == SelectSeq(CardOrder, LAMBDA id : CardDatabase[id].rarity = rarity)

\* generateCardRewards(count) from stream state s: the state afterwards and
\* the ids picked
RECURSIVE generateCardRewards(_, _)
generateCardRewards(s, count) ==
  IF count = 0 THEN [rng |-> s, rewards |-> <<>>]
  ELSE LET s1 == next(s)
           pool == IF s1 < 60 THEN Pool("common")
                   ELSE IF s1 < 93 THEN Pool("uncommon") ELSE Pool("rare")
           s2 == IF Len(pool) > 0 THEN next(s1) ELSE s1
           rest == generateCardRewards(s2, count - 1)
       IN  [rng |-> rest.rng,
            rewards |-> (IF Len(pool) > 0 THEN <<pick(s2, pool)>> ELSE <<>>) \o rest.rewards]

generateRelicReward == "vajra"

\* combatRewards: null, as a record of the shape of CombatRewards
NoRewards == [gold |-> NULL, cardChoices |-> <<>>, potions |-> <<>>, relicId |-> ""]

onVictory(m) ==
  LET isElite == \E i \in 1..Len(m.state.enemyIds) : hasTag(m.world, m.state.enemyIds[i], "elite")
      s1 == next(m.rng)
      cards == generateCardRewards(s1, 3)
      rewards == [gold |-> randInt(s1, 10, 20) + (IF isElite THEN 25 ELSE 0),
                  cardChoices |-> cards.rewards, potions |-> <<>>,
                  relicId |-> IF isElite THEN generateRelicReward ELSE ""]
  IN  emit([m EXCEPT !.state.combatRewards = rewards, !.rng = cards.rng,
                     !.tally.rewards = @ + 1, !.tally.combatEnd = @ + 1],
           [type |-> "combat:end", victory |-> TRUE, rewards |-> rewards])

onDefeat(m) ==
  emit([m EXCEPT !.tally.combatEnd = @ + 1], [type |-> "combat:end", victory |-> FALSE])

\* the living enemies of checkForDeaths, in list order
aliveEnemies(m) ==
  SelectSeq(m.state.enemyIds,
            LAMBDA id : hasComponent(m.world, id, "health")
                        /\ getComponent(m.world, id, "health").current > 0)

RECURSIVE destroyEach(_, _, _)
destroyEach(w, ids, i) ==
  IF i > Len(ids) THEN w ELSE destroyEach(destroyEntity(w, ids[i]), ids, i + 1)

\* the listed enemies checkForDeaths destroys
deadEnemies(m) ==
  SelectSeq(m.state.enemyIds,
            LAMBDA id : ~(hasComponent(m.world, id, "health")
                          /\ getComponent(m.world, id, "health").current > 0))

\* checkForDeaths, with transitionTo('victory') written out
checkForDeaths(m) ==
  LET alive == aliveEnemies(m)
      m1 == [m EXCEPT !.world = destroyEach(m.world, deadEnemies(m), 1),
                      !.state.enemyIds = alive]
  IN  IF Len(alive) = 0 THEN Let(setPhase(m1, "victory"), onVictory) ELSE m1

\* the poison loop taking the poison out of the enemy's block first
RECURSIVE poisonEach_throughBlock(_, _, _)
poisonEach_throughBlock(w, ids, i) ==
  IF i > Len(ids) THEN w
  ELSE LET id == ids[i]
           poison == GetOr0(effectsOf(w, id), "poison")
           blocked == Min(getComponent(w, id, "block").amount, poison)
           w1 == [w EXCEPT !.components["block"][id].amount = @ - blocked,
                           !.components["health"][id].current = @ - (poison - blocked)]
           w2 == IF poison - 1 <= 0 THEN deleteEffect(w1, id, "poison")
                 ELSE setEffect(w1, id, "poison", poison - 1)
       IN  poisonEach_throughBlock(IF poison > 0 THEN w2 ELSE w, ids, i + 1)

\* the poison loop of processPlayerTurnStartEffects
RECURSIVE poisonEach(_, _, _)
poisonEach(w, ids, i) ==
  IF i > Len(ids) THEN w
  ELSE LET id == ids[i]
           poison == GetOr0(effectsOf(w, id), "poison")
           w1 == IF hasComponent(w, id, "health")
                 THEN [w EXCEPT !.components["health"][id].current = @ - poison] ELSE w
           w2 == IF poison - 1 <= 0 THEN deleteEffect(w1, id, "poison")
                 ELSE setEffect(w1, id, "poison", poison - 1)
       IN  poisonEach(IF hasComponent(w, id, "statusEffects") /\ poison > 0 THEN w2 ELSE w,
                      ids, i + 1)

processPlayerTurnStartEffects(m) ==
  LET playerId == m.state.playerId
      w == m.world
      w1 == IF Truthy(effectsOf(w, playerId), "demon_form")
            THEN setEffect(w, playerId, "strength", GetOr0(effectsOf(w, playerId), "strength") + 2)
            ELSE w
      w2 == IF Truthy(effectsOf(w1, playerId), "demon_form_plus")
            THEN setEffect(w1, playerId, "strength", GetOr0(effectsOf(w1, playerId), "strength") + 3)
            ELSE w1
      brutality == Truthy(effectsOf(w2, playerId), "brutality")
      w3 == IF brutality /\ hasComponent(w2, playerId, "health")
            THEN [w2 EXCEPT !.components["health"][playerId].current = @ - 1]
            ELSE w2
      stores == IF brutality THEN drawCards(m.store, 1) ELSE {m.store}
  IN  IF ~hasComponent(w, playerId, "statusEffects") THEN {m}
      ELSE { checkForDeaths(x) :
               x \in { [m EXCEPT !.world = poisonEach(w3, m.state.enemyIds, 1), !.store = st] :
                         st \in stores } }

\* onPlayerTurnStart, ending with transitionTo('player_turn')
onPlayerTurnStart(m) ==
  LET playerId == m.state.playerId
      w == m.world
      w1 == IF hasComponent(w, playerId, "energy")
            THEN [w EXCEPT !.components["energy"][playerId].current =
                             getComponent(w, playerId, "energy").max]
            ELSE w
      w2 == IF ~Truthy(effectsOf(w1, playerId), "barricade") /\ hasComponent(w1, playerId, "block")
            THEN [w1 EXCEPT !.components["block"][playerId].amount = 0]
            ELSE w1
      m1 == [m EXCEPT !.state.turn = @ + 1, !.world = w2]
  IN  Bind(Bind({m1}, processPlayerTurnStartEffects),
           LAMBDA x : { setPhase(emit([x EXCEPT !.store = st],
                                      [type |-> "combat:turn_start", entityId |-> playerId,
                                       turnNumber |-> x.state.turn]),
                                 "player_turn") :
                          st \in drawCards(x.store, 5) })

\* parseActionToIntent reading an entry without a value as an attack
parseActionToIntent_attackByDefault(action) ==
  IF action.count > 0
  THEN [action |-> action.type, value |-> action.value, multiHit |-> action.count]
  ELSE [action |-> IF action.value = NULL THEN "attack" ELSE action.type,
        value |-> IF action.value = NULL THEN 0 ELSE action.value, multiHit |-> 0]

\* parseActionToIntent on the modelled form of the pattern string
parseActionToIntent(action) ==
  IF action.count > 0
  THEN [action |-> action.type, value |-> action.value, multiHit |-> action.count]
  ELSE [action |-> action.type, value |-> IF action.value = NULL THEN 0 ELSE action.value,
        multiHit |-> 0]

\* the pattern entry of a sequential enemy staying at the last entry once
\* the index is past it
sequentialAction_sticksAtLast(ai) == ai.pattern[Min(ai.patternIndex, Len(ai.pattern) - 1) + 1]

\* ai.pattern[ai.patternIndex % ai.pattern.length]
sequentialAction(ai) == ai.pattern[(ai.patternIndex % Len(ai.pattern)) + 1]

\* calculateEnemyIntents over the listed enemies from index i
RECURSIVE calculateEnemyIntents(_, _)
calculateEnemyIntents(m, i) ==
  IF i > Len(m.state.enemyIds) THEN m
  ELSE LET enemyId == m.state.enemyIds[i]
           w == m.world
           ai == getComponent(w, enemyId, "enemyAI")
           s1 == IF ai.aiType = "random" THEN next(m.rng) ELSE m.rng
           nextAction == IF ai.aiType = "sequential"
                         THEN sequentialAction(ai)
                         ELSE IF ai.aiType = "random" THEN pick(s1, ai.pattern)
                         ELSE ai.pattern[1]
           w1 == IF hasComponent(w, enemyId, "intent")
                 THEN [w EXCEPT !.components["intent"][enemyId] = parseActionToIntent(nextAction)]
                 ELSE w
       IN  IF ~hasComponent(w, enemyId, "enemyAI") THEN calculateEnemyIntents(m, i + 1)
           ELSE calculateEnemyIntents([m EXCEPT !.world = w1, !.rng = s1], i + 1)

\* one iteration of the loop of executeEnemyAction
enemyActionOnce(m, enemyId, intent) ==
  LET playerId == m.state.playerId
      w == m.world
  IN  CASE intent.action = "attack" ->
             CHOOSE x \in resolveEffect(m, Effect("damage", intent.value), enemyId, playerId, "enemy") : TRUE
        [] intent.action = "defend" ->
             IF hasComponent(w, enemyId, "block")
             THEN [m EXCEPT !.world.components["block"][enemyId].amount = @ + intent.value]
             ELSE m
        [] intent.action = "buff" ->
             IF hasComponent(w, enemyId, "statusEffects")
             THEN [m EXCEPT !.world = setEffect(w, enemyId, "strength",
                                                GetOr0(effectsOf(w, enemyId), "strength") + intent.value)]
             ELSE m
        [] intent.action = "debuff" ->
             IF hasComponent(w, playerId, "statusEffects")
             THEN [m EXCEPT !.world = setEffect(w, playerId, "weak",
                                                GetOr0(effectsOf(w, playerId), "weak") + intent.value)]
             ELSE m
        [] OTHER -> m

RECURSIVE enemyActionTimes(_, _, _, _)
enemyActionTimes(m, enemyId, intent, times) ==
  IF times <= 0 THEN m
  ELSE Let(enemyActionOnce(m, enemyId, intent),
           LAMBDA x : enemyActionTimes(x, enemyId, intent, times - 1))

executeEnemyAction(m, enemyId, intent) ==
  enemyActionTimes(m, enemyId, intent, IF intent.multiHit = 0 THEN 1 ELSE intent.multiHit)

\* the loop of onEnemyTurnEnd
RECURSIVE decrementEnemies(_, _, _)
decrementEnemies(w, ids, i) ==
  IF i > Len(ids) THEN w
  ELSE decrementEnemies(
         IF hasComponent(w, ids[i], "statusEffects")
         THEN [w EXCEPT !.components["statusEffects"][ids[i]].effects = decrementTurnEffects(@)]
         ELSE w,
         ids, i + 1)

\* onEnemyTurnEnd without its closing transitionTo('player_turn_start')
onEnemyTurnEnd_stops(m) ==
  {[m EXCEPT !.world = decrementEnemies(m.world, m.state.enemyIds, 1)]}

\* onEnemyTurnEnd, ending with transitionTo('player_turn_start')
onEnemyTurnEnd(m) ==
  Bind({setPhase([m EXCEPT !.world = decrementEnemies(m.world, m.state.enemyIds, 1)],
                 "player_turn_start")},
       onPlayerTurnStart)

\* the player-death check taking only a health below 0 for dead
playerDied_belowZero(playerHealth) == playerHealth.current < 0

\* playerHealth.current <= 0
playerDied(playerHealth) == playerHealth.current <= 0

\* the loop of executeEnemyTurns from list index i: transitionTo('defeat')
\* at once when the player is at 0, transitionTo('enemy_turn_end') after it
RECURSIVE executeEnemyTurns(_, _)
executeEnemyTurns(m, i) ==
  IF i > Len(m.state.enemyIds) THEN Bind({setPhase(m, "enemy_turn_end")}, onEnemyTurnEnd)
  ELSE LET enemyId == m.state.enemyIds[i]
           w == m.world
           skip == \/ ~hasEntity(w, enemyId)
                   \/ ~hasComponent(w, enemyId, "health")
                   \/ getComponent(w, enemyId, "health").current <= 0
                   \/ ~hasComponent(w, enemyId, "intent")
                   \/ ~hasComponent(w, enemyId, "enemyAI")
           m1 == executeEnemyAction(m, enemyId, getComponent(w, enemyId, "intent"))
           playerId == m.state.playerId
       IN  IF skip THEN executeEnemyTurns(m, i + 1)
           ELSE Bind({ IF getComponent(w, enemyId, "enemyAI").aiType = "sequential"
                          /\ hasComponent(x.world, enemyId, "enemyAI")
                       THEN [x EXCEPT !.world.components["enemyAI"][enemyId].patternIndex = @ + 1]
                       ELSE x : x \in {m1} },
                     LAMBDA m2 : IF hasComponent(m2.world, playerId, "health")
                                    /\ playerDied(getComponent(m2.world, playerId, "health"))
                                 THEN {onDefeat(setPhase(m2, "defeat"))}
                                 ELSE executeEnemyTurns(m2, i + 1))

\* the loop of onEnemyTurnStart leaving every block as it is
zeroBlocks_keeps(w, ids, i) == w

\* the loop of onEnemyTurnStart: every listed enemy's block is set to 0
RECURSIVE zeroBlocks(_, _, _)
zeroBlocks(w, ids, i) ==
  IF i > Len(ids) THEN w
  ELSE zeroBlocks(IF hasComponent(w, ids[i], "block")
                  THEN [w EXCEPT !.components["block"][ids[i]].amount = 0] ELSE w,
                  ids, i + 1)

\* onEnemyTurnStart going on to enemy_turn_end without the enemy turn
onEnemyTurnStart_skipsEnemyTurn(m) ==
  LET m1 == [m EXCEPT !.world = zeroBlocks(m.world, m.state.enemyIds, 1)]
  IN  Bind({setPhase(calculateEnemyIntents(x, 1), "enemy_turn_end") : x \in {m1}}, onEnemyTurnEnd)

\* onEnemyTurnStart, ending with transitionTo('enemy_turn')
onEnemyTurnStart(m) ==
  LET m1 == [m EXCEPT !.world = zeroBlocks(m.world, m.state.enemyIds, 1)]
  IN  Bind({setPhase(calculateEnemyIntents(x, 1), "enemy_turn") : x \in {m1}},
           LAMBDA x : executeEnemyTurns(x, 1))

\* onPlayerTurnEnd, ending with transitionTo('enemy_turn_start')
onPlayerTurnEnd(m) ==
  LET playerId == m.state.playerId
      w == m.world
      metallicize == GetOr0(effectsOf(w, playerId), "metallicize")
      w1 == IF metallicize # 0 /\ hasComponent(w, playerId, "block")
            THEN [w EXCEPT !.components["block"][playerId].amount = @ + metallicize]
            ELSE w
      w2 == IF hasComponent(w1, playerId, "statusEffects")
            THEN [w1 EXCEPT !.components["statusEffects"][playerId].effects = decrementTurnEffects(@)]
            ELSE w1
      m1 == emit([m EXCEPT !.store = discardHand(m.store), !.world = w2],
                 [type |-> "combat:turn_end", entityId |-> playerId, turnNumber |-> m.state.turn])
  IN  Bind({setPhase(m1, "enemy_turn_start")}, onEnemyTurnStart)

\* transitionTo(phase): the machines the transition can end in
transitionTo(m, phase) ==
  Bind({setPhase(m, phase)},
       LAMBDA m1 : CASE phase = "player_turn_start" -> onPlayerTurnStart(m1)
                     [] phase = "player_turn_end" -> onPlayerTurnEnd(m1)
                     [] phase = "enemy_turn_start" -> onEnemyTurnStart(m1)
                     [] phase = "enemy_turn" -> executeEnemyTurns(m1, 1)
                     [] phase = "enemy_turn_end" -> onEnemyTurnEnd(m1)
                     [] phase = "victory" -> {onVictory(m1)}
                     [] phase = "defeat" -> {onDefeat(m1)}
                     [] OTHER -> {m1})

\* the enemy entities of initCombat, created in the order of enemyIds
RECURSIVE createEnemies(_, _, _, _)
createEnemies(w, enemyIds, i, createdEnemyIds) ==
  IF i > Len(enemyIds) THEN {<<w, createdEnemyIds>>}
  ELSE Bind(createEnemyEntity(w, enemyIds[i]),
            LAMBDA r : createEnemies(r[1], enemyIds, i + 1,
                                     IF r[2] = NULL THEN createdEnemyIds
                                     ELSE Append(createdEnemyIds, r[2])))

initCombat(m, enemyIds) ==
  LET w0 == createEntity(clear)
      playerId == clear.nextEntityId
      w1 == addTag(w0, playerId, "player")
      w2 == addComponent(w1, playerId, "health",
                         [current |-> m.store.player.currentHealth, max |-> m.store.player.maxHealth])
      w3 == addComponent(w2, playerId, "block", [amount |-> 0])
      w4 == addComponent(w3, playerId, "energy",
                         [current |-> m.store.player.maxEnergy, max |-> m.store.player.maxEnergy])
      w5 == addComponent(w4, playerId, "statusEffects", [effects |-> EmptyMap])
  IN  Bind(createEnemies(w5, enemyIds, 1, <<>>),
           LAMBDA r :
             transitionTo(
               emit([m EXCEPT !.world = r[1],
                              !.state = [phase |-> "start", turn |-> 0, playerId |-> playerId,
                                         enemyIds |-> r[2], selectedCardIndex |-> NULL,
                                         selectedTargetId |-> NULL, combatRewards |-> NoRewards],
                              !.trace = <<"start">>,
                              !.rng = nextN(m.rng, Len(m.store.deck) - 1)],
                    [type |-> "combat:start", enemies |-> r[2]]),
               "player_turn_start"))

selectCard(m, index) ==
  IF m.state.phase # "player_turn" THEN {m}
  ELSE {[m EXCEPT !.state.selectedCardIndex = index, !.state.selectedTargetId = NULL]}

\* the energy check comparing the cost with the maximum energy
notEnoughEnergy_usesMax(energy, cost) == energy.max < cost

\* energy.current < card.cost
notEnoughEnergy(energy, cost) == energy.current < cost

playSelectedCard(m) ==
  LET index == m.state.selectedCardIndex
      inHand == index >= 0 /\ index < Len(m.store.hand)
      cardId == m.store.hand[index + 1]
      card == CardDatabase[cardId]
      playerId == m.state.playerId
      energy == getComponent(m.world, playerId, "energy")
      paid == [m EXCEPT !.world.components["energy"][playerId].current = @ - card.cost]
  IN  IF m.state.phase # "player_turn" THEN {m}
      ELSE IF index = NULL THEN {m}
      ELSE IF ~inHand \/ ~KnownCard(cardId) THEN {m}
      ELSE IF ~hasComponent(m.world, playerId, "energy") \/ notEnoughEnergy(energy, card.cost)
      THEN {m}
      ELSE IF card.target = "enemy" /\ m.state.selectedTargetId = NULL THEN {m}
      ELSE { checkForDeaths(y) :
               y \in { [x EXCEPT !.store = playCard(x.store, index),
                                 !.state.selectedCardIndex = NULL,
                                 !.state.selectedTargetId = NULL] :
                         x \in resolveCard(paid, cardId, playerId, m.state.selectedTargetId, FALSE) } }

selectTarget(m, targetId) ==
  IF m.state.phase # "player_turn" THEN {m}
  ELSE IF m.state.selectedCardIndex = NULL THEN {m}
  ELSE Bind({[m EXCEPT !.state.selectedTargetId = targetId]}, playSelectedCard)

endTurn(m) ==
  IF m.state.phase # "player_turn" THEN {m} ELSE transitionTo(m, "player_turn_end")

forceDeathCheck(m) == { checkForDeaths(x) : x \in {m} }

\* devKillAllEnemies of the combat scene: every listed enemy's health is set
\* to 0, then the death check is forced (ui/combat/CombatScene.ts)
RECURSIVE killEach(_, _, _)
killEach(w, ids, i) ==
  IF i > Len(ids) THEN w
  ELSE killEach(IF hasComponent(w, ids[i], "health")
                THEN [w EXCEPT !.components["health"][ids[i]].current = 0] ELSE w,
                ids, i + 1)

devKillAllEnemies(m) ==
  Bind({[m EXCEPT !.world = killEach(m.world, m.state.enemyIds, 1)]}, forceDeathCheck)

(***************************************************************************)
(* The encounter: one machine, from construction through one initCombat    *)
(***************************************************************************)
\* the machine the variables hold
M ==
  [state |-> state, world |-> world, store |-> store, rng |-> rng, events |-> events,
   trace |-> trace, tally |-> tally]

\* what an entry point is called on: the events and the phase trace of the
\* call start empty
Entry == [M EXCEPT !.events = <<>>, !.trace = <<state.phase>>]

\* the variables after an entry point op(arg) that returned machine m
Return(m, op, arg) ==
  /\ state' = m.state
  /\ world' = m.world
  /\ store' = m.store
  /\ rng' = m.rng
  /\ events' = m.events
  /\ trace' = m.trace
  /\ tally' = m.tally
  /\ last' = [op |-> op, arg |-> arg]
  /\ bus' = bus

\* inputs of the encounter
Encounters == { <<"unknown">>, <<"louse_red">> }

Decks == { <<"strike", "defend", "bash">>, <<"bludgeon", "flex", "brutality">> }

Players == { [currentHealth |-> 80, maxHealth |-> 80, maxEnergy |-> 3],
             [currentHealth |-> 1, maxHealth |-> 80, maxEnergy |-> 3] }

Seeds == {7}

HandIndexes == 0..3

TargetIds == {1}

\* the machine after construction, and a pile store as startRun leaves it
Init ==
  /\ state = [phase |-> "start", turn |-> 0, playerId |-> NULL, enemyIds |-> <<>>,
              selectedCardIndex |-> NULL, selectedTargetId |-> NULL, combatRewards |-> NoRewards]
  /\ world = clear
  /\ \E deck \in Decks, player \in Players :
       store = [player |-> player, deck |-> deck, hand |-> <<>>, drawPile |-> deck,
                discardPile |-> <<>>]
  /\ rng \in Seeds
  /\ events = <<>>
  /\ trace = <<"start">>
  /\ tally = [combatEnd |-> 0, rewards |-> 0]
  /\ last = [op |-> "constructor", arg |-> NULL]
  /\ bus = NewEventBus

\* entry points are taken while the bounds of the model allow
Running == tally.combatEnd < MaxCombatEnd

InitCombat ==
  /\ state.playerId = NULL
  /\ \E enemyIds \in Encounters : \E m \in initCombat(Entry, enemyIds) : Return(m, "initCombat", NULL)

SelectCard ==
  /\ Running /\ state.playerId # NULL
  /\ \E index \in HandIndexes : \E m \in selectCard(Entry, index) : Return(m, "selectCard", index)

SelectTarget ==
  /\ Running /\ state.playerId # NULL
  /\ \E targetId \in TargetIds : \E m \in selectTarget(Entry, targetId) :
       Return(m, "selectTarget", targetId)

PlaySelectedCard ==
  /\ Running /\ state.playerId # NULL
  /\ \E m \in playSelectedCard(Entry) : Return(m, "playSelectedCard", NULL)

EndTurn ==
  /\ Running /\ state.playerId # NULL
  /\ state.turn < MaxTurn
  /\ \E m \in endTurn(Entry) : Return(m, "endTurn", NULL)

ForceDeathCheck ==
  /\ Running /\ state.playerId # NULL
  /\ \E m \in forceDeathCheck(Entry) : Return(m, "forceDeathCheck", NULL)

DevKillAllEnemies ==
  /\ Running /\ state.playerId # NULL
  /\ \E m \in devKillAllEnemies(Entry) : Return(m, "devKillAllEnemies", NULL)

Next ==
  \/ InitCombat
  \/ SelectCard
  \/ SelectTarget
  \/ PlaySelectedCard
  \/ EndTurn
  \/ ForceDeathCheck
  \/ DevKillAllEnemies

Spec == Init /\ [][Next]_vars

(***************************************************************************)
(* The arena: an encounter standing at the player's turn with the player   *)
(* (entity 0) facing one red louse (entity 1), whose statuses, health and  *)
(* block are drawn from bounded sets - the statuses the Resolver and the   *)
(* state machine handle, whichever content applies them.  One Resolver or  *)
(* enemy-action call is made on it, or turns are ended from it.            *)
(***************************************************************************)
\* Health.max of both entities of the arena
ArenaHealth == 8

\* the map of the statuses with a positive count in c
Present(c) == [k \in {x \in DOMAIN c : c[x] > 0} |-> c[k]]

\* the world of the arena, built as initCombat builds it
ArenaWorldOf(def, playerHealth, playerBlock, playerEffects, enemyHealth, enemyBlock, enemyEffects, patternIndex) ==
  LET w0 == createEntity(clear)
      w1 == addTag(w0, 0, "player")
      w2 == addComponent(w1, 0, "health", [current |-> playerHealth, max |-> ArenaHealth])
      w3 == addComponent(w2, 0, "block", [amount |-> playerBlock])
      w4 == addComponent(w3, 0, "energy", [current |-> 3, max |-> 3])
      w5 == addComponent(w4, 0, "statusEffects", [effects |-> playerEffects])
      w6 == enemyEntity(w5, def, ArenaHealth)
      w7 == [w6 EXCEPT !.components["health"][1].current = enemyHealth,
                       !.components["block"][1].amount = enemyBlock,
                       !.components["statusEffects"][1].effects = enemyEffects,
                       !.components["enemyAI"][1].patternIndex = patternIndex]
  IN  w7

\* the arena of the player and a louse
ArenaWorld(playerHealth, playerBlock, playerEffects, enemyHealth, enemyBlock, enemyEffects, patternIndex) ==
  ArenaWorldOf(EnemyDatabase["louse_red"], playerHealth, playerBlock, playerEffects, enemyHealth,
               enemyBlock, enemyEffects, patternIndex)

\* an attacker with strength and weak against a defender with vulnerable,
\* intangible, block and health; the player attacks the louse or the louse
\* the player
AttackArenas ==
  { IF playerAttacks
    THEN ArenaWorld(ArenaHealth, 0, Present([strength |-> s, weak |-> wk]),
                    h, k, Present([vulnerable |-> vu, intangible |-> it]), 0)
    ELSE ArenaWorld(h, k, Present([vulnerable |-> vu, intangible |-> it]),
                    ArenaHealth, 0, Present([strength |-> s, weak |-> wk]), 0) :
      playerAttacks \in BOOLEAN, s \in 0..MaxStack, wk \in 0..1, vu \in 0..1, it \in 0..1,
      h \in {1, ArenaHealth}, k \in 0..MaxStack }

\* a holder of artifact, with or without weak already on it
WardArenas ==
  { IF playerHolds
    THEN ArenaWorld(ArenaHealth, 0, Present([artifact |-> a, weak |-> wk]), ArenaHealth, 0, EmptyMap, 0)
    ELSE ArenaWorld(ArenaHealth, 0, EmptyMap, ArenaHealth, 0, Present([artifact |-> a, weak |-> wk]), 0) :
      playerHolds \in BOOLEAN, a \in 1..MaxStack, wk \in 0..1 }

\* thorns on the defender, on both sides or on one
ThornsArenas ==
  { ArenaWorld(ph, pk, Present([thorns |-> pt]), eh, 0, Present([thorns |-> et]), 0) :
      ph \in {1, ArenaHealth}, pk \in 0..1, pt \in 0..MaxStack, eh \in {1, ArenaHealth},
      et \in 0..MaxStack }

\* block modifiers on the player
BlockArenas ==
  { ArenaWorld(ArenaHealth, k, Present([dexterity |-> d, frail |-> f]), ArenaHealth, 0, EmptyMap, 0) :
      k \in 0..MaxStack, d \in 0..MaxStack, f \in 0..1 }

\* upkeep statuses: brutality and metallicize on the player, poison on the
\* louse, which attacks next (patternIndex 0) or buffs next (patternIndex 2)
UpkeepArenas ==
  { ArenaWorld(ph, 0, Present([brutality |-> br, metallicize |-> me]),
               eh, 0, Present([poison |-> po]), patternIndex) :
      ph \in {1, ArenaHealth}, br \in 0..1, me \in 0..1, eh \in {1, ArenaHealth},
      po \in 0..MaxStack, patternIndex \in {0, 2} }

\* turn-scoped debuffs on both sides
DebuffArenas ==
  { ArenaWorld(ArenaHealth, 0, Present([vulnerable |-> pv, weak |-> pw, frail |-> pf]),
               ArenaHealth, 0, Present([vulnerable |-> ev, weak |-> ew]), 0) :
      pv \in 0..MaxStack, pw \in 0..MaxStack, pf \in 0..MaxStack, ev \in 0..MaxStack,
      ew \in 0..MaxStack }

\* block on both sides at the player's turn: the player with or without
\* barricade and metallicize, against a sentry that attacks next
\* (patternIndex 0) or defends next (patternIndex 1)
BarricadeArenas ==
  { ArenaWorldOf(EnemyDatabase["sentries"], ArenaHealth, pk,
                 Present([barricade |-> ba, metallicize |-> me]), ArenaHealth, ek, EmptyMap,
                 patternIndex) :
      pk \in 0..MaxStack, ba \in 0..1, me \in 0..1, ek \in 0..MaxStack, patternIndex \in {0, 1} }

\* the player in a turn in which flex was played: strength from inflame or
\* none, raised by the flex plays of the turn (one, two or an upgraded one)
\* together with strength_down_eot; rage and flame_barrier held or not
FlexArenas ==
  { ArenaWorld(ArenaHealth, 0,
               Present([strength |-> inflame + flex, strength_down_eot |-> flex, rage |-> ra,
                        flame_barrier |-> fb]),
               ArenaHealth, 0, EmptyMap, 2) :
      inflame \in {0, 2}, flex \in {0, 2, 4}, ra \in {0, 1}, fb \in {0, 4} }

\* thorns on a louse that also holds strength, with or without weak and
\* block, attacked by a player with or without vulnerable, thorns and block
ReflectArenas ==
  { ArenaWorld(ph, pk, Present([vulnerable |-> pv, thorns |-> pt]),
               ArenaHealth, ek, Present([thorns |-> et, strength |-> 1, weak |-> ew]), 0) :
      ph \in {1, ArenaHealth}, pk \in 0..1, pv \in 0..1, pt \in 0..1,
      ek \in {0, MaxStack}, et \in 1..MaxStack, ew \in 0..1 }

Arenas ==
  AttackArenas \cup WardArenas \cup ThornsArenas \cup BlockArenas \cup UpkeepArenas
    \cup DebuffArenas \cup BarricadeArenas \cup FlexArenas \cup ReflectArenas

\* the effects handed to resolveEffect
ArenaEffects ==
  { Effect("damage", b) : b \in {0, 1, 3, 5} }
    \cup { Effect("damage", -2), EffectSelf("damage", 2), EffectT("damage", 1, 2),
           Effect("damage_all", 3), Effect("block", 2), Effect("heal", 3), EffectSelf("heal", 3),
           Effect("draw", 1), Effect("energy", 1), Effect("add_card_to_discard", 0),
           Effect("conditional", 0) }
    \cup { EffectS(1, statusId) :
             statusId \in {"vulnerable", "weak", "frail", "poison", "strength", "artifact"} }

\* source and target of the calls: the player on the louse, the louse on the
\* player, the player without a target
ArenaPairs == { <<0, 1>>, <<1, 0>>, <<0, NULL>> }

CardTargets == {"enemy", "self", "all_enemies", "random_enemy"}

\* the intents handed to executeEnemyAction
ArenaIntents ==
  { [action |-> "attack", value |-> 3, multiHit |-> 0],
    [action |-> "attack", value |-> 1, multiHit |-> 2],
    [action |-> "defend", value |-> 2, multiHit |-> 0],
    [action |-> "buff", value |-> 1, multiHit |-> 0],
    [action |-> "debuff", value |-> 1, multiHit |-> 0],
    [action |-> "unknown", value |-> 0, multiHit |-> 0] }

InitArena ==
  /\ world \in Arenas
  /\ state = [phase |-> "player_turn", turn |-> 1, playerId |-> 0, enemyIds |-> <<1>>,
              selectedCardIndex |-> NULL, selectedTargetId |-> NULL, combatRewards |-> NoRewards]
  /\ store = [player |-> [currentHealth |-> ArenaHealth, maxHealth |-> ArenaHealth, maxEnergy |-> 3],
              deck |-> <<"strike", "defend">>, hand |-> <<>>, drawPile |-> <<"strike", "defend">>,
              discardPile |-> <<>>]
  /\ rng \in Seeds
  /\ events = <<>>
  /\ trace = <<"player_turn">>
  /\ tally = [combatEnd |-> 0, rewards |-> 0]
  /\ last = [op |-> "arena", arg |-> NULL]
  /\ bus = NewEventBus

ResolveEffect ==
  /\ last.op = "arena"
  /\ \E effect \in ArenaEffects, pair \in ArenaPairs, cardTarget \in CardTargets :
       \E m \in resolveEffect(Entry, effect, pair[1], pair[2], cardTarget) :
         Return(m, "resolveEffect",
                [effect |-> effect, sourceId |-> pair[1], targetId |-> pair[2],
                 cardTarget |-> cardTarget])

\* the card ids handed to resolveCard: every id of the table and one that is
\* not in it
ArenaCardIds == { CardOrder[i] : i \in 1..Len(CardOrder) } \cup {"unknown_card"}

ResolveCard ==
  /\ last.op = "arena"
  /\ \E cardId \in ArenaCardIds, targetId \in {1, NULL}, upgraded \in BOOLEAN :
       \E m \in resolveCard(Entry, cardId, 0, targetId, upgraded) :
         Return(m, "resolveCard",
                [cardId |-> cardId, sourceId |-> 0, targetId |-> targetId,
                 upgraded |-> upgraded])

\* definitions content can register in the table, with an effect kind the
\* switch does not handle before other effects (in the shipped table such an
\* effect is always the last of its list)
ContentCards ==
  [id \in {"armaments_first", "grit_between"} |->
    CASE id = "armaments_first" ->
           Card("skill", "common", 1, "self",
                <<Effect("upgrade_random", 1), Effect("block", 2)>>, FALSE, <<>>, {})
      [] id = "grit_between" ->
           Card("attack", "common", 2, "enemy",
                <<Effect("damage", 3), Effect("exhaust", 1), EffectS(1, "vulnerable")>>, TRUE,
                <<Effect("exhaust", 1), Effect("damage", 5)>>, {})]

\* resolveCard for a registered definition
ResolveContentCard ==
  /\ last.op = "arena"
  /\ \E cardId \in DOMAIN ContentCards, targetId \in {1, NULL}, upgraded \in BOOLEAN :
       \E m \in resolveCardDef(Entry, cardId, ContentCards[cardId], 0, targetId, upgraded) :
         Return(m, "resolveContentCard",
                [cardId |-> cardId, sourceId |-> 0, targetId |-> targetId,
                 upgraded |-> upgraded])

ExecuteEnemyAction ==
  /\ last.op = "arena"
  /\ \E intent \in ArenaIntents :
       Return(executeEnemyAction(Entry, 1, intent), "executeEnemyAction",
              [enemyId |-> 1, intent |-> intent])

ArenaEndTurn ==
  /\ last.op \in {"arena", "endTurn"}
  /\ state.turn < MaxTurn
  /\ \E m \in endTurn(Entry) : Return(m, "endTurn", NULL)

NextArena ==
  \/ ResolveEffect
  \/ ResolveCard
  \/ ResolveContentCard
  \/ ExecuteEnemyAction
  \/ ArenaEndTurn

SpecArena == InitArena /\ [][NextArena]_vars

(***************************************************************************)
(* The long deck: a pile store whose deck and draw pile hold six cards, so *)
(* that one card stays in the draw pile after the opening hand: a status   *)
(* card, a drawing card and a self-damage card of the card table           *)
(***************************************************************************)
HandDeck == <<"wound", "wound", "wound", "wound", "pommel_strike", "hemokinesis">>

HandEncounters == { <<"sentries">> }

InitHand ==
  /\ state = [phase |-> "start", turn |-> 0, playerId |-> NULL, enemyIds |-> <<>>,
              selectedCardIndex |-> NULL, selectedTargetId |-> NULL, combatRewards |-> NoRewards]
  /\ world = clear
  /\ \E player \in Players :
       store = [player |-> player, deck |-> HandDeck, hand |-> <<>>, drawPile |-> HandDeck,
                discardPile |-> <<>>]
  /\ rng \in Seeds
  /\ events = <<>>
  /\ trace = <<"start">>
  /\ tally = [combatEnd |-> 0, rewards |-> 0]
  /\ last = [op |-> "constructor", arg |-> NULL]
  /\ bus = NewEventBus

HandInitCombat ==
  /\ state.playerId = NULL
  /\ \E enemyIds \in HandEncounters : \E m \in initCombat(Entry, enemyIds) :
       Return(m, "initCombat", NULL)

\* turns of the long-deck encounter
HandTurns == 2

HandEndTurn ==
  /\ Running /\ state.playerId # NULL
  /\ state.turn < HandTurns
  /\ \E m \in endTurn(Entry) : Return(m, "endTurn", NULL)

NextHand ==
  \/ HandInitCombat
  \/ SelectCard
  \/ SelectTarget
  \/ PlaySelectedCard
  \/ HandEndTurn

SpecHand == InitHand /\ [][NextHand]_vars

(***************************************************************************)
(* The pack: the arena with two enemies, a sentry (entity 1) in front of a *)
(* red louse (entity 2), both listed as living.  The same calls are made.  *)
(***************************************************************************)
\* the world of the pack, built as initCombat builds it
PackWorld(health1, effects1, patternIndex1, health2, effects2) ==
  LET w1 == ArenaWorldOf(EnemyDatabase["sentries"], ArenaHealth, 0, EmptyMap, health1, 0,
                         effects1, patternIndex1)
      w2 == enemyEntity(w1, EnemyDatabase["louse_red"], ArenaHealth)
  IN  [w2 EXCEPT !.components["health"][2].current = health2,
                 !.components["statusEffects"][2].effects = effects2]

\* poison on either enemy, at low or full health; the sentry attacks next
\* (patternIndex 0) or defends next (patternIndex 1), the louse attacks
PackArenas ==
  { PackWorld(h1, Present([poison |-> p1]), patternIndex1, h2, Present([poison |-> p2])) :
      h1 \in {1, 2, ArenaHealth}, p1 \in 0..MaxStack, patternIndex1 \in {0, 1},
      h2 \in {1, ArenaHealth}, p2 \in 0..1 }

InitPack ==
  /\ world \in PackArenas
  /\ state = [phase |-> "player_turn", turn |-> 1, playerId |-> 0, enemyIds |-> <<1, 2>>,
              selectedCardIndex |-> NULL, selectedTargetId |-> NULL, combatRewards |-> NoRewards]
  /\ store = [player |-> [currentHealth |-> ArenaHealth, maxHealth |-> ArenaHealth, maxEnergy |-> 3],
              deck |-> <<"strike", "defend">>, hand |-> <<>>, drawPile |-> <<"strike", "defend">>,
              discardPile |-> <<>>]
  /\ rng \in Seeds
  /\ events = <<>>
  /\ trace = <<"player_turn">>
  /\ tally = [combatEnd |-> 0, rewards |-> 0]
  /\ last = [op |-> "arena", arg |-> NULL]
  /\ bus = NewEventBus

SpecPack == InitPack /\ [][NextArena]_vars

(***************************************************************************)
(* The duel: an encounter driven through the entry points in its first     *)
(* turns, against an elite with a louse behind it or a louse alone, with   *)
(* the call log kept in last.arg: the enemy list handed to initCombat and  *)
(* the cards played so far with their targets.                             *)
(***************************************************************************)
\* endTurn is taken in the first DuelTurns turns of the duel
DuelTurns == 4
\* cards are played while fewer than MaxPlayed were played
MaxPlayed == 2

DuelEncounters == { <<"louse_red">>, <<"sentries", "louse_red">>, <<"looter">> }

DuelDeck == <<"strike", "bash">>

DuelPlayers == { [currentHealth |-> 80, maxHealth |-> 80, maxEnergy |-> 3],
                 [currentHealth |-> 15, maxHealth |-> 80, maxEnergy |-> 3],
                 [currentHealth |-> 9, maxHealth |-> 80, maxEnergy |-> 3] }

DuelHandIndexes == 0..1

DuelTargetIds == {1, 2}

\* <<cardId, targetId>> of the card-played events of evs, in order
RECURSIVE cardsPlayed(_)
cardsPlayed(evs) ==
  IF evs = <<>> THEN <<>>
  ELSE (IF evs[1].type = "combat:card_played" THEN <<<<evs[1].cardId, evs[1].targetId>>>> ELSE <<>>)
       \o cardsPlayed(Tail(evs))

\* the variables after an entry point of the duel that returned machine m
DuelReturn(m, op) ==
  Return(m, op, [encounter |-> last.arg.encounter,
                 played |-> last.arg.played \o cardsPlayed(m.events)])

InitDuel ==
  /\ state = [phase |-> "start", turn |-> 0, playerId |-> NULL, enemyIds |-> <<>>,
              selectedCardIndex |-> NULL, selectedTargetId |-> NULL, combatRewards |-> NoRewards]
  /\ world = clear
  /\ \E player \in DuelPlayers :
       store = [player |-> player, deck |-> DuelDeck, hand |-> <<>>, drawPile |-> DuelDeck,
                discardPile |-> <<>>]
  /\ rng \in Seeds
  /\ events = <<>>
  /\ trace = <<"start">>
  /\ tally = [combatEnd |-> 0, rewards |-> 0]
  /\ last = [op |-> "constructor", arg |-> [encounter |-> <<>>, played |-> <<>>]]
  /\ bus = NewEventBus

DuelInitCombat ==
  /\ state.playerId = NULL
  /\ \E enemyIds \in DuelEncounters : \E m \in initCombat(Entry, enemyIds) :
       Return(m, "initCombat", [encounter |-> enemyIds, played |-> <<>>])

DuelSelectCard ==
  /\ Running /\ state.playerId # NULL
  /\ Len(last.arg.played) < MaxPlayed
  /\ \E index \in DuelHandIndexes : \E m \in selectCard(Entry, index) : DuelReturn(m, "selectCard")

DuelSelectTarget ==
  /\ Running /\ state.playerId # NULL
  /\ Len(last.arg.played) < MaxPlayed
  /\ \E targetId \in DuelTargetIds : \E m \in selectTarget(Entry, targetId) :
       DuelReturn(m, "selectTarget")

DuelEndTurn ==
  /\ Running /\ state.playerId # NULL
  /\ state.turn <= DuelTurns
  /\ \E m \in endTurn(Entry) : DuelReturn(m, "endTurn")

DuelKillAllEnemies ==
  /\ Running /\ state.playerId # NULL
  /\ \E m \in devKillAllEnemies(Entry) : DuelReturn(m, "devKillAllEnemies")

NextDuel ==
  \/ DuelInitCombat
  \/ DuelSelectCard
  \/ DuelSelectTarget
  \/ DuelEndTurn
  \/ DuelKillAllEnemies

SpecDuel == InitDuel /\ [][NextDuel]_vars

(***************************************************************************)
(* The World alone: entities are created up to a bound; components and     *)
(* tags are added and removed, and entities destroyed, among the ids that  *)
(* are created sooner or later.                                            *)
(***************************************************************************)
\* createEntity is taken while fewer than MaxEntities entities were created
MaxEntities == 2

WorldComponents ==
  { <<"health", [current |-> 5, max |-> 5]>>,
    <<"statusEffects", [effects |-> ("vulnerable" :> 2) @@ ("weak" :> 1)]>> }

WorldTags == {"enemy", "elite"}

\* the ids the calls are made with: an id is unknown to the World until it
\* is created and again once it is destroyed
WorldIds == 0..(MaxEntities - 1)

InitWorld ==
  /\ state = [phase |-> "start", turn |-> 0, playerId |-> NULL, enemyIds |-> <<>>,
              selectedCardIndex |-> NULL, selectedTargetId |-> NULL, combatRewards |-> NoRewards]
  /\ world = clear
  /\ store = [player |-> [currentHealth |-> 80, maxHealth |-> 80, maxEnergy |-> 3],
              deck |-> <<>>, hand |-> <<>>, drawPile |-> <<>>, discardPile |-> <<>>]
  /\ rng \in Seeds
  /\ events = <<>>
  /\ trace = <<"start">>
  /\ tally = [combatEnd |-> 0, rewards |-> 0]
  /\ last = [op |-> "constructor", arg |-> NULL]
  /\ bus = NewEventBus

CreateEntity ==
  /\ world.nextEntityId < MaxEntities
  /\ Return([Entry EXCEPT !.world = createEntity(world)], "createEntity", world.nextEntityId)

DestroyEntity ==
  \E id \in WorldIds :
    Return([Entry EXCEPT !.world = destroyEntity(world, id)], "destroyEntity", id)

AddComponent ==
  \E id \in WorldIds, c \in WorldComponents :
    Return([Entry EXCEPT !.world = addComponent(world, id, c[1], c[2])], "addComponent", id)

AddTag ==
  \E id \in WorldIds, tag \in WorldTags :
    Return([Entry EXCEPT !.world = addTag(world, id, tag)], "addTag", id)

RemoveComponent ==
  \E id \in WorldIds, c \in WorldComponents :
    Return([Entry EXCEPT !.world = removeComponent(world, id, c[1])], "removeComponent", id)

RemoveTag ==
  \E id \in WorldIds, tag \in WorldTags :
    Return([Entry EXCEPT !.world = removeTag(world, id, tag)], "removeTag", id)

\* the World is saved and loaded from what was saved
Deserialize ==
  Return([Entry EXCEPT !.world = deserialize(serialize(world))], "deserialize", NULL)

NextWorld ==
  \/ CreateEntity
  \/ DestroyEntity
  \/ AddComponent
  \/ RemoveComponent
  \/ AddTag
  \/ RemoveTag
  \/ Deserialize

SpecWorld == InitWorld /\ [][NextWorld]_vars

(***************************************************************************)
(* The generator alone: a SeededRNG is made from a seed, streams are asked *)
(* for by name and numbers are drawn from the streams and from the         *)
(* generator itself, in any order.  "events" is the log of the draws.     *)
(***************************************************************************)
\* no number is drawn once MaxDraws numbers were drawn
MaxDraws == 4

\* the seed strings "a" and "b"
RngSeeds == { <<97>>, <<98>> }

StreamNames == {"combat", "rewards"}

InitRng ==
  /\ state = [phase |-> "start", turn |-> 0, playerId |-> NULL, enemyIds |-> <<>>,
              selectedCardIndex |-> NULL, selectedTargetId |-> NULL, combatRewards |-> NoRewards]
  /\ world = clear
  /\ store = [player |-> [currentHealth |-> 80, maxHealth |-> 80, maxEnergy |-> 3],
              deck |-> <<>>, hand |-> <<>>, drawPile |-> <<>>, discardPile |-> <<>>]
  /\ rng \in { SeededRNG(seed) : seed \in RngSeeds }
  /\ events = <<>>
  /\ trace = <<"start">>
  /\ tally = [combatEnd |-> 0, rewards |-> 0]
  /\ last = [op |-> "constructor", arg |-> NULL]
  /\ bus = NewEventBus

GetStream ==
  \E name \in StreamNames :
    Return([M EXCEPT !.rng = getStream(rng, name)], "getStream", name)

\* getStream(name).random()
StreamRandom ==
  /\ Len(events) < MaxDraws
  /\ \E name \in StreamNames :
     \E r \in {getStream(rng, name)} :
       Return([M EXCEPT !.rng = [r EXCEPT !.streams[name].state = next(@)],
                        !.events = Append(@, [stream |-> name,
                                              value |-> next(r.streams[name].state)])],
              "random", name)

\* random() of the generator itself
ParentRandom ==
  /\ Len(events) < MaxDraws
  /\ Return([M EXCEPT !.rng.state = next(@),
                      !.events = Append(@, [stream |-> "", value |-> next(rng.state)])],
            "random", "")

NextRng ==
  \/ GetStream
  \/ StreamRandom
  \/ ParentRandom

SpecRng == InitRng /\ [][NextRng]_vars

(***************************************************************************)
(* The bus alone: handlers subscribe and unsubscribe, history recording is *)
(* switched on, and events are emitted, in any order                       *)
(***************************************************************************)
\* the history keeps at most MaxHistory events
MaxHistory == 2

HandlerIds == 1..4

EmittedTypes == {"combat:damage", "combat:card_drawn"}

SubscribedTypes == {"combat:damage", "*"}

\* at most two handlers are subscribed to one event type
MaxHandlers == 2

InitBus ==
  /\ state = [phase |-> "start", turn |-> 0, playerId |-> NULL, enemyIds |-> <<>>,
              selectedCardIndex |-> NULL, selectedTargetId |-> NULL, combatRewards |-> NoRewards]
  /\ world = clear
  /\ store = [player |-> [currentHealth |-> 80, maxHealth |-> 80, maxEnergy |-> 3],
              deck |-> <<>>, hand |-> <<>>, drawPile |-> <<>>, discardPile |-> <<>>]
  /\ rng \in Seeds
  /\ events = <<>>
  /\ trace = <<"start">>
  /\ tally = [combatEnd |-> 0, rewards |-> 0]
  /\ last = [op |-> "new", arg |-> NULL]
  /\ bus = NewEventBus

\* what a call on the bus starts from: no handler called, nothing printed
BusEntry == [bus EXCEPT !.calls = <<>>, !.console = <<>>]

\* the variables after a call op(arg) on the bus that left it as b
BusReturn(b, op, arg) ==
  /\ bus' = b
  /\ last' = [op |-> op, arg |-> arg]
  /\ UNCHANGED <<state, world, store, rng, events, trace, tally>>

On ==
  \E eventType \in SubscribedTypes, handler \in HandlerIds :
    /\ Len(handlersOf(bus, eventType)) < MaxHandlers
    /\ BusReturn(on(BusEntry, eventType, handler), "on", handler)

Off ==
  \E eventType \in SubscribedTypes, handler \in HandlerIds :
    BusReturn(off(BusEntry, eventType, handler), "off", handler)

EnableHistory == BusReturn(enableHistory(BusEntry, MaxHistory), "enableHistory", MaxHistory)

\* emit(eventType, 1); the caller sees whether emit threw
Emit ==
  \E eventType \in EmittedTypes :
    LET r == busEmit(BusEntry, eventType, 1)
    IN  BusReturn(r.bus, "emit", [type |-> eventType, thrown |-> r.thrown])

NextBus ==
  \/ On
  \/ Off
  \/ EnableHistory
  \/ Emit

SpecBus == InitBus /\ [][NextBus]_vars

(***************************************************************************)
(* Properties of the encounter                                             *)
(***************************************************************************)
\* the phases assigned by the entry point that returned last; trace[1] is
\* the phase it was called in
Assigned == { trace[i] : i \in 2..Len(trace) }

\* C1: victory and defeat are absorbing - once the phase has been set to
\* victory or defeat, neither the rest of that call nor a later entry point
\* of the encounter sets it to a different phase.
VictoryDefeatAbsorbing ==
  \A i \in 1..Len(trace) : \A j \in 1..Len(trace) :
    (i < j /\ trace[i] \in Terminal) => trace[j] = trace[i]

\* the successor of each phase in the cycle
Successor ==
  [p \in {"start", "player_turn_start", "player_turn", "player_turn_end", "enemy_turn_start",
          "enemy_turn", "enemy_turn_end"} |->
    CASE p = "start" -> "player_turn_start"
      [] p = "player_turn_start" -> "player_turn"
      [] p = "player_turn" -> "player_turn_end"
      [] p = "player_turn_end" -> "enemy_turn_start"
      [] p = "enemy_turn_start" -> "enemy_turn"
      [] p = "enemy_turn" -> "enemy_turn_end"
      [] p = "enemy_turn_end" -> "player_turn_start"]

\* C2: the phase cycle is strictly linear - every phase change out of a
\* non-terminal phase goes to the successor of that phase in the cycle, or to
\* victory or defeat.
PhaseCycleLinear ==
  \A i \in 1..(Len(trace) - 1) :
    trace[i] \notin Terminal =>
      trace[i + 1] = Successor[trace[i]] \/ trace[i + 1] \in Terminal

\* an endTurn call went through the whole cycle back to player_turn
FullCycleDone ==
  /\ last.op = "endTurn"
  /\ trace = <<"player_turn", "player_turn_end", "enemy_turn_start", "enemy_turn",
               "enemy_turn_end", "player_turn_start", "player_turn">>

\* an endTurn call ended in defeat in the middle of the enemy turn
DefeatReached == last.op = "endTurn" /\ state.phase = "defeat"

\* a combat-end event is among the events of the last call
CombatEndEmitted(evs) == \E i \in 1..Len(evs) : evs[i].type = "combat:end"

\* C3: the death check is idempotent - the second of two forceDeathCheck
\* calls in succession destroys no entity, changes neither the living-enemy
\* list nor the rewards, performs no victory transition and emits no
\* combat-end event.
DeathCheckIdempotent ==
  [][(last.op = "forceDeathCheck" /\ last'.op = "forceDeathCheck") =>
       /\ world' = world
       /\ state'.enemyIds = state.enemyIds
       /\ state'.combatRewards = state.combatRewards
       /\ \A i \in 2..Len(trace') : trace'[i] # "victory"
       /\ ~CombatEndEmitted(events')]_vars

\* C4: victory is triggered exactly once per encounter - the combat-end
\* event is emitted at most once and the rewards are generated at most once.
VictoryOnce == tally.combatEnd <= 1 /\ tally.rewards <= 1

\* C5: whenever a death check finds zero living enemies, the entry point
\* that ran it returns with the phase victory and the rewards populated.
ZeroEnemiesEndsInVictory ==
  "victory" \in Assigned => (state.phase = "victory" /\ state.combatRewards # NoRewards)

\* the entities of the world in creation order, as a set
Entities(w) == { w.entities[i] : i \in 1..Len(w.entities) }

\* Health.current in [0, Health.max] and Block.amount >= 0 for every entity
BoundsHold(w) ==
  \A id \in Entities(w) :
    /\ hasComponent(w, id, "health") =>
         (getComponent(w, id, "health").current >= 0
          /\ getComponent(w, id, "health").current <= getComponent(w, id, "health").max)
    /\ hasComponent(w, id, "block") => getComponent(w, id, "block").amount >= 0

\* C6: every Resolver call (resolveEffect of any effect kind, source and
\* target, or resolveCard; magnitudes as the card database declares them)
\* started where every entity has 0 <= Health.current <= Health.max and
\* Block.amount >= 0 ends where every entity still has both.
ResolverKeepsBounds ==
  [][(last'.op \in {"resolveEffect", "resolveCard"} /\ BoundsHold(world)) => BoundsHold(world')]_vars

\* a damage effect of 5 brought the louse, unblocked and not intangible, to 0
DamageClampedAtZero ==
  /\ last.op = "resolveEffect"
  /\ last.arg.effect = Effect("damage", 5)
  /\ last.arg.sourceId = 0 /\ last.arg.targetId = 1 /\ last.arg.cardTarget = "enemy"
  /\ ~Truthy(effectsOf(world, 1), "intangible")
  /\ getComponent(world, 1, "block").amount = 0
  /\ getComponent(world, 1, "health").current = 0

\* C7: in every reachable state of an encounter, the turn-start, turn-end
\* and enemy steps included, every existing entity has Health.current in
\* [0, Health.max] and Block.amount >= 0.
HealthBlockInBounds == BoundsHold(world)

\* no status map of the world stores a count below 1
NoZeroStacks(w) ==
  \A id \in Entities(w) :
    hasComponent(w, id, "statusEffects") =>
      \A k \in DOMAIN effectsOf(w, id) : effectsOf(w, id)[k] >= 1

\* C8: a StatusStacks mapping never stores a zero or negative entry, after
\* every Resolver call and every phase step.
StatusStacksPositive == NoZeroStacks(world)

\* the debuff that call op(arg) applies once to entity t, "" when it applies
\* none: an apply-status effect of a card aimed at t, or the debuff intent of
\* an enemy, which is aimed at the player
DebuffOn(op, arg, t) ==
  IF op = "resolveEffect"
  THEN IF /\ arg.effect.type = "apply_status" /\ arg.effect.statusId \in Debuffs
          /\ arg.effect.times <= 1 /\ arg.effect.target = "" /\ arg.cardTarget = "enemy"
          /\ arg.targetId = t
       THEN arg.effect.statusId ELSE ""
  ELSE IF op = "executeEnemyAction"
  THEN IF arg.intent.action = "debuff" /\ arg.intent.multiHit = 0 /\ t = state.playerId
       THEN "weak" ELSE ""
  ELSE ""

\* C9: applying a debuff to an entity holding artifact > 0 consumes exactly
\* one artifact stack and leaves the stack count of the debuff unchanged, by
\* the apply-status effect of a card and by the debuff intent of an enemy.
ArtifactNegatesDebuff ==
  [][\A t \in Entities(world) :
       (DebuffOn(last'.op, last'.arg, t) # "" /\ GetOr0(effectsOf(world, t), "artifact") > 0) =>
         /\ GetOr0(effectsOf(world', t), "artifact") = GetOr0(effectsOf(world, t), "artifact") - 1
         /\ GetOr0(effectsOf(world', t), DebuffOn(last'.op, last'.arg, t)) =
              GetOr0(effectsOf(world, t), DebuffOn(last'.op, last'.arg, t))]_vars

\* the reference amount of an attack hit: strength added, then weak, then
\* vulnerable, then intangible
ReferenceDamage(b, s, weak, vulnerable, intangible) ==
  LET d1 == b + s
      d2 == IF weak THEN (3 * d1) \div 4 ELSE d1
      d3 == IF vulnerable THEN (3 * d2) \div 2 ELSE d2
  IN  IF intangible THEN 1 ELSE d3

\* world w2 holds the reference result of an attack hit of base b by
\* sourceId on targetId in world w
HitAsReference(w, w2, sourceId, targetId, b) ==
  LET d4 == ReferenceDamage(b, GetOr0(effectsOf(w, sourceId), "strength"),
                            Truthy(effectsOf(w, sourceId), "weak"),
                            Truthy(effectsOf(w, targetId), "vulnerable"),
                            Truthy(effectsOf(w, targetId), "intangible"))
      k == getComponent(w, targetId, "block").amount
      h == getComponent(w, targetId, "health").current
      blocked == Min(k, d4)
  IN  /\ getComponent(w2, targetId, "block").amount = k - blocked
      /\ getComponent(w2, targetId, "health").current = Max(0, h - (d4 - blocked))

\* the call op(arg) is one attack hit on a given target: a damage effect of a
\* card, or the attack intent of the louse on the player
IsAttackHit(op, arg) ==
  IF op = "resolveEffect"
  THEN /\ arg.effect.type = "damage" /\ arg.effect.value >= 0 /\ arg.effect.target = ""
       /\ arg.effect.times <= 1 /\ arg.cardTarget # "random_enemy" /\ arg.targetId # NULL
  ELSE op = "executeEnemyAction" /\ arg.intent.action = "attack" /\ arg.intent.multiHit = 0

\* C10: for every attack hit with base b, source strength s, source weak,
\* target vulnerable, target intangible, target block k and target health h
\* the result is the reference: d1 = b + s, d2 = floor(0.75 d1) if weak,
\* d3 = floor(1.5 d2) if vulnerable, d4 = 1 if intangible, blocked =
\* min(k, d4), block' = k - blocked, health' = max(0, h - (d4 - blocked)).
AttackHitAsReference ==
  [][IsAttackHit(last'.op, last'.arg) =>
       IF last'.op = "resolveEffect"
       THEN HitAsReference(world, world', last'.arg.sourceId, last'.arg.targetId,
                           last'.arg.effect.value)
       ELSE HitAsReference(world, world', last'.arg.enemyId, state.playerId,
                           last'.arg.intent.value)]_vars

\* a hit of base 3 by a weak attacker of strength 2 on a vulnerable target
\* without block took 4 of 8 health: 5, then 3, then 4
WeakThenVulnerableHit ==
  /\ last.op = "resolveEffect"
  /\ last.arg.effect = Effect("damage", 3)
  /\ last.arg.sourceId = 0 /\ last.arg.targetId = 1 /\ last.arg.cardTarget = "enemy"
  /\ GetOr0(effectsOf(world, 0), "strength") = 2 /\ Truthy(effectsOf(world, 0), "weak")
  /\ Truthy(effectsOf(world, 1), "vulnerable") /\ ~Truthy(effectsOf(world, 1), "intangible")
  /\ getComponent(world, 1, "block").amount = 0
  /\ getComponent(world, 1, "health").current = ArenaHealth - 4

\* health lost by entity id: Health.max - Health.current
Lost(w, id) == getComponent(w, id, "health").max - getComponent(w, id, "health").current

\* the cards played so far in the duel are exactly the sequence cards, all on
\* target t, in the first turn, and t is still in the world
PlayedOn(cards, t) ==
  /\ state.turn = 1
  /\ last.arg.played = [i \in 1..Len(cards) |-> <<cards[i], t>>]
  /\ hasComponent(world, t, "health")

\* C11: bash and then strike on the same full-health target without block or
\* statuses take 8 and then floor(6 * 1.5) = 9 of its health, 17 in all: the
\* vulnerable applied by the second effect of bash does not change the
\* damage of its first effect and does change the next card played.
BashThenStrike ==
  \A t \in DuelTargetIds :
    /\ PlayedOn(<<"bash">>, t) =>
         (Lost(world, t) = 8 /\ GetOr0(effectsOf(world, t), "vulnerable") = 2)
    /\ PlayedOn(<<"bash", "strike">>, t) => Lost(world, t) = 17

\* bash and then strike were played on the sentry, which lost 17 health
BashThenStrikePlayed ==
  /\ last.arg.encounter = <<"sentries", "louse_red">>
  /\ PlayedOn(<<"bash", "strike">>, 1)
  /\ Lost(world, 1) = 17

\* the statuses that last a number of turns of their owner
TurnScoped == {"vulnerable", "weak", "frail"}

\* status map after holds every turn-scoped debuff of before decremented by
\* one, and none whose count was 1 or that before did not hold
TickedOnce(before, after) ==
  \A d \in TurnScoped :
    IF GetOr0(before, d) > 1 THEN MapHas(after, d) /\ after[d] = before[d] - 1
    ELSE ~MapHas(after, d)

\* the turn-scoped debuffs of before are those of after
SameDebuffs(before, after) ==
  \A d \in TurnScoped : MapHas(before, d) = MapHas(after, d) /\ GetOr0(before, d) = GetOr0(after, d)

\* C12: vulnerable, weak and frail on an entity decrement by exactly 1 at
\* the turn-end of their owner and at no other phase step, and are removed
\* when they reach 0.  An endTurn call runs player_turn_end once, and
\* enemy_turn_end once unless the player is defeated before it; the louse
\* applies no debuff, so over the call the player's debuffs have ticked once
\* and the louse's once or, without enemy_turn_end, not at all.  Resolver
\* effects other than apply_status and enemy actions other than debuff leave
\* them as they were.
DebuffsTickAtOwnTurnEnd ==
  [][/\ (last'.op = "endTurn" /\ state.phase = "player_turn") =>
          /\ TickedOnce(effectsOf(world, 0), effectsOf(world', 0))
          /\ hasComponent(world', 1, "statusEffects") =>
               IF \E i \in 2..Len(trace') : trace'[i] = "enemy_turn_end"
               THEN TickedOnce(effectsOf(world, 1), effectsOf(world', 1))
               ELSE SameDebuffs(effectsOf(world, 1), effectsOf(world', 1))
     /\ (\/ last'.op = "resolveEffect" /\ last'.arg.effect.type # "apply_status"
         \/ last'.op = "executeEnemyAction" /\ last'.arg.intent.action # "debuff") =>
          \A id \in {0, 1} : SameDebuffs(effectsOf(world, id), effectsOf(world', id))]_vars

\* a turn was ended with the cycle completed, and the louse holds vulnerable 1
\* and the player frail 1: each held 2 before the call
DebuffsTickedOnce ==
  /\ last.op = "endTurn" /\ state.turn = 2 /\ state.phase = "player_turn"
  /\ GetOr0(effectsOf(world, 1), "vulnerable") = 1
  /\ GetOr0(effectsOf(world, 0), "frail") = 1

\* the card under the selected index, "" when the index holds none
SelectedCard ==
  IF state.selectedCardIndex # NULL /\ state.selectedCardIndex < Len(store.hand)
  THEN store.hand[state.selectedCardIndex + 1] ELSE ""

\* the call op made in the current state is rejected: made outside
\* player_turn, or a play of a selected card that costs more than the energy
\* left, or a play without target of a card that needs an enemy
Rejected(op) ==
  \/ /\ op \in {"selectCard", "selectTarget", "playSelectedCard", "endTurn"}
     /\ state.phase # "player_turn"
  \/ /\ op \in {"selectTarget", "playSelectedCard"}
     /\ state.phase = "player_turn"
     /\ KnownCard(SelectedCard)
     /\ \/ getComponent(world, state.playerId, "energy").current < CardDatabase[SelectedCard].cost
        \/ /\ op = "playSelectedCard"
           /\ CardDatabase[SelectedCard].target = "enemy"
           /\ state.selectedTargetId = NULL

\* a card-played event is among evs
CardPlayedEmitted(evs) == \E i \in 1..Len(evs) : evs[i].type = "combat:card_played"

\* C13: a rejected call - a play without the energy or without the
\* required enemy target, or any selectCard, selectTarget, playSelectedCard
\* or endTurn outside player_turn - changes no component of any entity, no
\* card pile and not the phase, and emits no card-played event.
RejectionsAreNoOps ==
  [][Rejected(last'.op) =>
       /\ world' = world
       /\ store' = store
       /\ state'.phase = state.phase
       /\ ~CardPlayedEmitted(events')]_vars

\* a play was rejected for energy: with no energy left a card costing 1 is
\* still selected, with its target, after selectTarget returned
PlayRejectedForEnergy ==
  /\ last.op = "selectTarget" /\ state.phase = "player_turn"
  /\ KnownCard(SelectedCard) /\ CardDatabase[SelectedCard].cost = 1
  /\ state.selectedTargetId # NULL
  /\ getComponent(world, state.playerId, "energy").current = 0

\* C14: replay determinism - from one seed and one sequence of player
\* choices every run goes through the same states: each entry point, called
\* in the current state with given arguments, has one outcome (one enemy
\* starting health, one intent roll, one target pick, one reward roll).
ReplayDeterministic ==
  /\ state.playerId = NULL =>
       \A enemyIds \in Encounters : Cardinality(initCombat(Entry, enemyIds)) = 1
  /\ state.playerId # NULL =>
       /\ Cardinality(endTurn(Entry)) = 1
       /\ \A targetId \in TargetIds : Cardinality(selectTarget(Entry, targetId)) = 1

\* C15: generating the victory rewards does not advance the combat stream.
\* A card play or a forced death check makes no other draw from it, so when
\* such a call generated the rewards the stream is where it was before.
RewardsLeaveCombatStream ==
  [][(/\ last'.op \in {"selectTarget", "playSelectedCard", "forceDeathCheck", "devKillAllEnemies"}
      /\ tally'.rewards > tally.rewards) => rng' = rng]_vars

\* an enemy of the encounter handed to initCombat is an elite
EliteEncounter ==
  \E i \in 1..Len(last.arg.encounter) :
    last.arg.encounter[i] \in DOMAIN EnemyDatabase /\ EnemyDatabase[last.arg.encounter[i]].isElite

\* C16: on victory the gold is randInt(10, 20), plus 25 exactly when an
\* enemy of the encounter was an elite (35..44 against 10..19), and a relic
\* is granted if and only if the encounter included an elite.
RewardsFollowElite ==
  state.combatRewards # NoRewards =>
    IF EliteEncounter
    THEN state.combatRewards.gold \in 35..44 /\ state.combatRewards.relicId # ""
    ELSE state.combatRewards.gold \in 10..19 /\ state.combatRewards.relicId = ""

\* health taken from the player by the damage events of evs whose source is
\* enemy id (the player of the duel has neither block nor statuses)
RECURSIVE Hits(_, _)
Hits(evs, id) ==
  IF evs = <<>> THEN 0
  ELSE (IF evs[1].type = "combat:damage" /\ evs[1].sourceId = id THEN evs[1].amount - evs[1].blocked
        ELSE 0) + Hits(Tail(evs), id)

\* the health the player had left after the first i enemies of ids acted
RECURSIVE LeftAfter(_, _, _, _)
LeftAfter(health, evs, ids, i) ==
  IF i = 0 THEN health ELSE LeftAfter(health, evs, ids, i - 1) - Hits(evs, ids[i])

\* C17: in the enemy turn the living enemies act one at a time in list
\* order; right after the first enemy action that leaves the player's
\* Health.current at 0 the phase becomes defeat, no later enemy executes its
\* intent or advances its pattern index, and neither enemy_turn_end nor
\* player_turn_start runs.  Over an endTurn call: the enemies whose pattern
\* index advanced are the first k of the list, the others dealt no damage,
\* the player was above 0 after each of the first k - 1, and a player at 0
\* means the call ended the enemy turn in defeat.
EnemiesStopAtDefeat ==
  [][(last'.op = "endTurn" /\ state.phase = "player_turn") =>
       LET ids == state.enemyIds
           playerHealth == getComponent(world, state.playerId, "health").current
           advanced == { i \in 1..Len(ids) :
                           getComponent(world', ids[i], "enemyAI").patternIndex
                             # getComponent(world, ids[i], "enemyAI").patternIndex }
       IN  /\ \E k \in 0..Len(ids) :
                /\ advanced = 1..k
                /\ \A i \in 1..Len(ids) : i > k => Hits(events', ids[i]) = 0
                /\ \A i \in 1..(k - 1) : LeftAfter(playerHealth, events', ids, i) > 0
           /\ getComponent(world', state.playerId, "health").current = 0 =>
                /\ state'.phase = "defeat"
                /\ trace' = <<"player_turn", "player_turn_end", "enemy_turn_start",
                              "enemy_turn", "defeat">>]_vars

\* the sentry brought the player from 9 to 0: the phase is defeat and the
\* louse behind it has not advanced its pattern
DefeatedByFirstEnemy ==
  /\ last.op = "endTurn" /\ state.phase = "defeat"
  /\ last.arg.encounter = <<"sentries", "louse_red">>
  /\ state.enemyIds = <<1, 2>>
  /\ getComponent(world, state.playerId, "health").current = 0
  /\ getComponent(world, 1, "enemyAI").patternIndex = 1
  /\ getComponent(world, 2, "enemyAI").patternIndex = 0

\* C18: combat resolution runs to completion - whenever an entry point of
\* an encounter started by initCombat returns, the phase is player_turn,
\* victory or defeat, never start or an intermediate phase; and player_turn
\* is left only in a call that ends the turn, plays a card or checks for
\* deaths.
RunsToCompletion ==
  [][/\ state'.phase \in {"player_turn", "victory", "defeat"}
     /\ (state.phase = "player_turn" /\ state'.phase # "player_turn") =>
          last'.op \in {"endTurn", "selectTarget", "playSelectedCard", "forceDeathCheck",
                         "devKillAllEnemies"}]_vars

\* id is in sequence seq
InSeq(seq, id) == \E i \in 1..Len(seq) : seq[i] = id

\* what the World holds of entity id: its existence, its components, its
\* tags, and the tag and query results it is in
Holding(w, id) ==
  [exists |-> hasEntity(w, id),
   components |-> [type \in ComponentTypes |->
                    IF hasComponent(w, id, type) THEN <<getComponent(w, id, type)>> ELSE <<>>],
   tags |-> { tag \in WorldTags : hasTag(w, id, tag) },
   byTag |-> { tag \in WorldTags : InSeq(getEntitiesByTag(w, tag), id) },
   queries |-> { types \in SUBSET {"health", "statusEffects"} : InSeq(query(w, types), id) }]

\* what the World holds of an id that is not in it
Nothing ==
  [exists |-> FALSE, components |-> [type \in ComponentTypes |-> <<>>], tags |-> {},
   byTag |-> {}, queries |-> {}]

\* C19: destroyEntity(id) removes every component and every tag membership
\* of id and nothing else - afterwards id does not exist, has no component
\* of any kind, is in no tag result and in no query result, and every other
\* entity holds what it held; for an unknown id the World stays as it was.
DestroyRemovesAllOfOne ==
  [][last'.op = "destroyEntity" =>
       IF hasEntity(world, last'.arg)
       THEN /\ Holding(world', last'.arg) = Nothing
            /\ \A other \in (0..MaxEntities) \ {last'.arg} :
                 Holding(world', other) = Holding(world, other)
            /\ world'.nextEntityId = world.nextEntityId
       ELSE world' = world]_vars

\* entity 0, tagged enemy and holding health, was destroyed while entity 1,
\* tagged enemy too, stays in the tag result
TaggedEntityDestroyed ==
  /\ last.op = "destroyEntity" /\ last.arg = 0
  /\ world.nextEntityId > 0 /\ ~hasEntity(world, 0)
  /\ getEntitiesByTag(world, "enemy") = <<1>>
  /\ hasComponent(world, 1, "health")

\* C20: addComponent(id, component) for an id that was never created or
\* was destroyed fails with an error and leaves the World unchanged;
\* getComponent for that id is absent afterwards.
AddToUnknownFails ==
  [][(last'.op = "addComponent" /\ ~hasEntity(world, last'.arg)) =>
       /\ addComponentThrows(world, last'.arg)
       /\ world' = world
       /\ \A type \in ComponentTypes : ~hasComponent(world', last'.arg, type)]_vars

\* a component was added to entity 0 after it had been destroyed, and to no
\* avail
AddedToDestroyed ==
  /\ last.op = "addComponent" /\ last.arg = 0
  /\ world.nextEntityId > 0 /\ ~hasEntity(world, 0)

\* the component kinds the World is queried for
QueryKinds == { c[1] : c \in WorldComponents }

\* C21: after any sequence of createEntity, destroyEntity, addComponent and
\* removeComponent calls, query(kinds...) returns exactly the existing
\* entities that hold all listed kinds, each once, in ascending id order.
QueryExactInOrder ==
  \A types \in SUBSET QueryKinds :
    /\ \A i, j \in 1..Len(query(world, types)) :
         i < j => query(world, types)[i] < query(world, types)[j]
    /\ \A id \in 0..MaxEntities :
         InSeq(query(world, types), id) <=>
           /\ InSeq(world.entities, id)
           /\ \A type \in types : id \in DOMAIN world.components[type]

\* both entities hold health and, after a removeComponent on entity 0, only
\* entity 1 holds statusEffects
QueriedAfterRemove ==
  /\ last.op = "removeComponent" /\ last.arg = 0
  /\ query(world, {"health"}) = <<0, 1>>
  /\ query(world, {"health", "statusEffects"}) = <<1>>
  /\ query(world, {}) = <<0, 1>>

\* C22: the two tag indexes stay consistent - for every entity e and tag t,
\* hasTag(e, t) holds if and only if e is in getEntitiesByTag(t), every
\* entity returned by getEntitiesByTag exists and is returned once.
TagIndexesConsistent ==
  \A tag \in WorldTags :
    /\ \A id \in 0..MaxEntities :
         hasTag(world, id, tag) <=> InSeq(getEntitiesByTag(world, tag), id)
    /\ \A i \in 1..Len(getEntitiesByTag(world, tag)) :
         /\ hasEntity(world, getEntitiesByTag(world, tag)[i])
         /\ \A j \in 1..Len(getEntitiesByTag(world, tag)) :
              getEntitiesByTag(world, tag)[i] = getEntitiesByTag(world, tag)[j] => i = j

\* addTag was called for entity 0 after it had been destroyed, while
\* entity 1 holds the tag enemy
TaggedUnknownEntity ==
  /\ last.op = "addTag" /\ last.arg = 0
  /\ world.nextEntityId > 0 /\ ~hasEntity(world, 0)
  /\ getEntitiesByTag(world, "enemy") = <<1>>

\* the two Worlds hold the same entities in the same order, the same next
\* id, the same components and the same tags in both tag indexes
SameWorld(w1, w2) ==
  /\ w1.entities = w2.entities
  /\ w1.nextEntityId = w2.nextEntityId
  /\ \A id \in 0..MaxEntities :
       /\ \A type \in ComponentTypes :
            /\ hasComponent(w1, id, type) <=> hasComponent(w2, id, type)
            /\ hasComponent(w1, id, type) => getComponent(w1, id, type) = getComponent(w2, id, type)
       /\ \A tag \in WorldTags :
            /\ hasTag(w1, id, tag) <=> hasTag(w2, id, tag)
            /\ InSeq(getEntitiesByTag(w1, tag), id) <=> InSeq(getEntitiesByTag(w2, tag), id)

\* C23: serialization round-trips - deserialize(serialize(w)) yields a
\* World with the same entities in the same order, the same next entity id,
\* the same component of every kind on every entity, the status mapping of
\* statusEffects included, and the same tags in both tag indexes.
SerializeRoundTrips ==
  [][last'.op = "deserialize" => SameWorld(world, world')]_vars

\* a World was loaded in which entity 1 holds two statuses and both tags and
\* entity 0 the tag elite
LoadedStatusAndTags ==
  /\ last.op = "deserialize"
  /\ world.entities = <<0, 1>>
  /\ GetOr0(effectsOf(world, 1), "vulnerable") = 2 /\ GetOr0(effectsOf(world, 1), "weak") = 1
  /\ getEntitiesByTag(world, "elite") = <<0, 1>> /\ getEntitiesByTag(world, "enemy") = <<1>>

\* C24: resolveCard with a card id that is not in the card table changes no
\* component of any entity, no pile and no combat state, and emits no
\* notification; it returns normally.
UnknownCardIsNoOp ==
  [][(last'.op = "resolveCard" /\ ~KnownCard(last'.arg.cardId)) =>
       /\ world' = world /\ store' = store /\ state' = state /\ rng' = rng
       /\ events' = <<>>]_vars

\* resolveCard returned from a call with an id that is not in the table, in
\* an arena where the target is vulnerable
UnknownCardResolved ==
  /\ last.op = "resolveCard" /\ last.arg.cardId = "unknown_card" /\ last.arg.targetId = 1
  /\ GetOr0(effectsOf(world, 1), "vulnerable") > 0

\* the effect kinds the switch of resolveEffect has a case for
HandledKinds ==
  {"damage", "damage_all", "block", "draw", "energy", "apply_status", "heal",
   "add_card_to_discard", "add_card_to_draw", "add_card_to_hand"}

\* the effects of a list that are of a handled kind, in their order
Handled(effects) == SelectSeq(effects, LAMBDA e : e.type \in HandledKinds)

\* the definition that call op(arg) resolves
CardOf(op, arg) ==
  IF op = "resolveCard" THEN CardDatabase[arg.cardId] ELSE ContentCards[arg.cardId]

\* C25: resolveCard applies the effects of the card in list order and then
\* emits exactly one card-played notification carrying the cost of the
\* card; an effect of an unhandled kind changes nothing and prevents neither
\* the effects after it nor the notification - the call ends as it does for
\* the same card without its unhandled effects.
UnhandledEffectsSkipped ==
  [][(\/ last'.op = "resolveCard" /\ KnownCard(last'.arg.cardId)
      \/ last'.op = "resolveContentCard") =>
       \E before \in {Entry}, card \in {CardOf(last'.op, last'.arg)} :
         /\ \E x \in resolveCardDef(before, last'.arg.cardId,
                                   [card EXCEPT !.effects = Handled(@),
                                                !.effectsUpgraded = Handled(@)],
                                   last'.arg.sourceId, last'.arg.targetId, last'.arg.upgraded) :
              /\ world' = x.world /\ store' = x.store /\ state' = x.state
              /\ events' = x.events
         /\ Len(events') >= 1
         /\ events'[Len(events')].type = "combat:card_played"
         /\ events'[Len(events')].cost = card.cost
         /\ \A i \in 1..(Len(events') - 1) : events'[i].type # "combat:card_played"]_vars

\* the card with an unhandled effect between a damage and a status effect
\* was resolved on the louse: the louse is hit, vulnerable is applied after
\* the unhandled effect, and the notification closes the call
UnhandledEffectPassed ==
  /\ last.op = "resolveContentCard" /\ last.arg.cardId = "grit_between"
  /\ ~last.arg.upgraded /\ last.arg.targetId = 1
  /\ GetOr0(effectsOf(world, 1), "vulnerable") = 1
  /\ Len(events) >= 3
  /\ events[1].type = "combat:damage"
  /\ events[Len(events)].type = "combat:card_played" /\ events[Len(events)].cost = 2

\* the numbers drawn so far from the stream of a name, "" for the generator
\* itself
Produced(name) == SelectSeq(events, LAMBDA e : e.stream = name)

\* the state a generator made from a seed string starts in
Fresh(seed, name) ==
  hashSeed(IF name = "" THEN seed ELSE seed \o Chars("_") \o Chars(name))

\* C26: named streams are independent - whatever was drawn from the other
\* streams and from the generator in between, the numbers drawn from the
\* stream of a name, and from the generator itself, are the sequence an
\* undisturbed generator of its seed produces, and a stream that getStream
\* returns again continues where it was (it is not reseeded).
StreamsIndependent ==
  \A name \in StreamNames \cup {""} :
    /\ \A i \in 1..Len(Produced(name)) :
         Produced(name)[i].value = nextN(Fresh(rng.initialSeed, name), i)
    /\ name = "" => rng.state = nextN(Fresh(rng.initialSeed, name), Len(Produced(name)))
    /\ (name # "" /\ MapHas(rng.streams, name)) =>
         rng.streams[name].state = nextN(Fresh(rng.initialSeed, name), Len(Produced(name)))

\* numbers were drawn from combat, from rewards, from the generator and from
\* combat again, and getStream was then asked for combat once more
DrawsInterleaved ==
  /\ last.op = "getStream" /\ last.arg = "combat"
  /\ Len(events) = 4
  /\ events[1].stream = "combat" /\ events[2].stream = "rewards"
  /\ events[3].stream = "" /\ events[4].stream = "combat"

\* the entry point that returned ran an enemy turn
RanEnemyTurn == last'.op = "endTurn" /\ \E i \in 2..Len(trace') : trace'[i] = "enemy_turn"

\* what executing pattern entry a by enemy id leaves behind: the hit on the
\* player, the block or the strength gained
Executed(a, id) ==
  /\ a.type = "attack" =>
       \E i \in 1..Len(events') :
         /\ events'[i].type = "combat:damage" /\ events'[i].sourceId = id
         /\ events'[i].targetId = state.playerId /\ events'[i].amount = a.value
  /\ a.type = "defend" => getComponent(world', id, "block").amount = a.value
  /\ a.type = "buff" =>
       GetOr0(effectsOf(world', id), "strength") = GetOr0(effectsOf(world, id), "strength") + a.value

\* C27: for an enemy with sequential AI the action executed on its k-th
\* enemy turn is pattern[(k-1) mod length] - the pattern index is 0 after
\* initCombat, is k-1 when the k-th enemy turn starts, advances by exactly 1
\* in each enemy turn in which the enemy acts and changes in no other call.
PatternFollowed ==
  [][\A id \in DuelTargetIds :
       /\ (last'.op = "initCombat" /\ hasComponent(world', id, "enemyAI")) =>
            getComponent(world', id, "enemyAI").patternIndex = 0
       /\ (hasComponent(world, id, "enemyAI") /\ hasComponent(world', id, "enemyAI")) =>
            LET ai == getComponent(world, id, "enemyAI")
                index == getComponent(world', id, "enemyAI").patternIndex
                a == ai.pattern[((state.turn - 1) % Len(ai.pattern)) + 1]
            IN  IF RanEnemyTurn /\ (state'.phase # "defeat" \/ index # ai.patternIndex)
                THEN /\ ai.patternIndex = state.turn - 1
                     /\ index = ai.patternIndex + 1
                     /\ getComponent(world', id, "intent") = parseActionToIntent(a)
                     /\ Executed(a, id)
                ELSE index = ai.patternIndex]_vars

\* the louse has had its fourth enemy turn: after attack, attack and buff
\* it attacked again, from the start of its pattern
PatternWrapped ==
  /\ last.op = "endTurn" /\ last.arg.encounter = <<"louse_red">>
  /\ state.phase = "player_turn" /\ state.turn = 5
  /\ getComponent(world, 1, "enemyAI").patternIndex = 4
  /\ getComponent(world, 1, "intent").action = "attack"
  /\ GetOr0(effectsOf(world, 1), "strength") = 3

\* C28: an enemy's Intent is its next action, computed ahead of execution -
\* whenever the phase is player_turn, the Intent component of each living
\* enemy holds the action, value and repeat count that the enemy executes
\* in the next enemy turn (for a sequential enemy, its pattern entry at the
\* pattern index).
IntentShowsNextAction ==
  state.phase = "player_turn" =>
    \A i \in 1..Len(state.enemyIds) :
      LET id == state.enemyIds[i]
      IN  (/\ hasComponent(world, id, "intent") /\ hasComponent(world, id, "enemyAI")
           /\ getComponent(world, id, "enemyAI").aiType = "sequential") =>
            getComponent(world, id, "intent")
              = parseActionToIntent(sequentialAction(getComponent(world, id, "enemyAI")))

\* the intent actions executeEnemyAction has a case for
IntentActions == {"attack", "defend", "buff", "debuff"}

RECURSIVE Blocked(_, _)
Blocked(evs, id) ==
  IF evs = <<>> THEN 0
  ELSE (IF evs[1].type = "combat:damage" /\ evs[1].targetId = id THEN evs[1].blocked ELSE 0)
       + Blocked(Tail(evs), id)

\* the phase was assigned by the entry point that returned
Ran(phase) == \E i \in 2..Len(trace') : trace'[i] = phase

\* C30: block is zeroed only at its owner's phase boundary.  An endTurn that
\* runs the player's turn start leaves the player's block at 0, or, when
\* the player holds barricade, at what turn end and the enemy's hits left
\* of it; the enemy's block is set to 0 at enemy_turn_start before the
\* enemy acts, so after the enemy turn it is what a defend intent of this
\* turn gave; and no other call zeroes a block: it only loses what it
\* absorbed.
BlockZeroedAtOwnBoundary ==
  [][/\ (last'.op = "endTurn" /\ Ran("player_turn_start") /\ state'.phase = "player_turn") =>
          getComponent(world', 0, "block").amount =
            IF Truthy(effectsOf(world, 0), "barricade")
            THEN getComponent(world, 0, "block").amount + GetOr0(effectsOf(world, 0), "metallicize")
                   - Blocked(events', 0)
            ELSE 0
     /\ (last'.op = "endTurn" /\ Ran("enemy_turn") /\ hasComponent(world', 1, "block")) =>
          getComponent(world', 1, "block").amount =
            IF sequentialAction(getComponent(world, 1, "enemyAI")).type = "defend"
            THEN sequentialAction(getComponent(world, 1, "enemyAI")).value
            ELSE 0
     /\ last'.op \in {"resolveEffect", "resolveCard", "resolveContentCard", "executeEnemyAction"} =>
          \A id \in {0, 1} :
            (hasComponent(world, id, "block") /\ hasComponent(world', id, "block")) =>
              getComponent(world', id, "block").amount
                >= getComponent(world, id, "block").amount - Blocked(events', id)]_vars

\* the player holding barricade kept block through the turn start while the
\* sentry, which had block, was zeroed and then defended
BlockKeptByBarricade ==
  /\ last.op = "endTurn" /\ state.phase = "player_turn" /\ state.turn = 2
  /\ Truthy(effectsOf(world, 0), "barricade")
  /\ getComponent(world, 0, "block").amount = 2
  /\ getComponent(world, 1, "enemyAI").patternIndex = 2
  /\ getComponent(world, 1, "block").amount = 9

\* the event of type t is among evs, and first at index Position(evs, t)
RECURSIVE Position(_, _)
Position(evs, t) ==
  IF evs = <<>> THEN 1 ELSE IF evs[1].type = t THEN 1 ELSE 1 + Position(Tail(evs), t)

\* the block the enemy's own action of this turn gives it
Defended(w, id) ==
  IF sequentialAction(getComponent(w, id, "enemyAI")).type = "defend"
  THEN sequentialAction(getComponent(w, id, "enemyAI")).value ELSE 0

\* C31: poison ticks at player_turn_start and nowhere else.  An endTurn
\* that runs the player's turn start takes from every listed enemy with
\* poison p > 0 exactly p health, whatever block it holds, and leaves it
\* poison p - 1, no entry at 0; an enemy the tick brings to 0 or below is
\* destroyed by the death check that follows the ticks, and when that ends
\* the combat the combat-end event precedes the turn-start event, which is
\* emitted after the draw.  An endTurn that ends before the turn start, and
\* every resolver call and enemy action other than applying poison, leaves
\* poison and the health of the poisoned as they were.
PoisonTicksAtTurnStart ==
  [][/\ (last'.op = "endTurn" /\ state.phase = "player_turn") =>
          \A i \in 1..Len(state.enemyIds) :
            LET id == state.enemyIds[i]
                p == GetOr0(effectsOf(world, id), "poison")
                h == getComponent(world, id, "health").current
            IN  IF ~Ran("player_turn_start")
                THEN /\ effectsOf(world', id) = effectsOf(world, id)
                     /\ getComponent(world', id, "health").current = h
                ELSE IF h - p <= 0
                THEN /\ ~hasEntity(world', id)
                     /\ \A j \in 1..Len(state'.enemyIds) : state'.enemyIds[j] # id
                ELSE /\ getComponent(world', id, "health").current = h - p
                     /\ getComponent(world', id, "block").amount = Defended(world, id)
                     /\ GetOr0(effectsOf(world', id), "poison") = Max(p - 1, 0)
                     /\ MapHas(effectsOf(world', id), "poison") = (p > 1)
     /\ (last'.op = "endTurn" /\ CombatEndEmitted(events') /\ Ran("player_turn_start")) =>
          Position(events', "combat:end") < Position(events', "combat:turn_start")
     /\ (\/ last'.op = "resolveEffect" /\ last'.arg.effect.statusId # "poison"
         \/ last'.op \in {"resolveCard", "resolveContentCard", "executeEnemyAction"}) =>
          \A id \in {1, 2} :
            GetOr0(effectsOf(world', id), "poison") = GetOr0(effectsOf(world, id), "poison")]_vars

\* a turn was ended where the sentry, at full health with poison 2, defended
\* and then lost 2 health behind its block of 9, and the louse, at 1 health
\* with poison 1, was destroyed
PoisonTickedBehindBlock ==
  /\ last.op = "endTurn" /\ state.phase = "player_turn" /\ state.turn = 2
  /\ state.enemyIds = <<1>>
  /\ ~hasEntity(world, 2)
  /\ getComponent(world, 1, "health").current = ArenaHealth - 2
  /\ getComponent(world, 1, "block").amount = 9
  /\ effectsOf(world, 1) = [poison |-> 1]

\* the strength the entity holds apart from the flex plays of this turn
LastingStrength(w, id) ==
  GetOr0(effectsOf(w, id), "strength") - GetOr0(effectsOf(w, id), "strength_down_eot")

\* C32: flex is a temporary buff.  Every play of flex raises strength and
\* strength_down_eot by the same amount, so strength less strength_down_eot
\* stays what the strength was before the first flex of the turn; the
\* player's turn end brings the strength count back to it and removes
\* strength_down_eot, rage and flame_barrier.
FlexIsTemporary ==
  [][/\ (last'.op = "resolveCard" /\ last'.arg.cardId = "flex") =>
          /\ LastingStrength(world', 0) = LastingStrength(world, 0)
          /\ GetOr0(effectsOf(world', 0), "strength") =
               GetOr0(effectsOf(world, 0), "strength") + (IF last'.arg.upgraded THEN 4 ELSE 2)
     /\ (last'.op = "endTurn" /\ state.phase = "player_turn") =>
          /\ GetOr0(effectsOf(world', 0), "strength") = LastingStrength(world, 0)
          /\ \A k \in {"strength_down_eot", "rage", "flame_barrier"} :
               ~MapHas(effectsOf(world', 0), k)]_vars

\* a turn was ended by a player whose only strength came from flex: the
\* count is back at 0, and rage and flame_barrier are gone with it
FlexWoreOff ==
  /\ last.op = "endTurn" /\ state.turn = 2
  /\ effectsOf(world, 0) = [strength |-> 0]

\* health taken from entity id by the damage events of evs (the entities of
\* the pack hold no block and no damage modifier)
RECURSIVE Taken(_, _)
Taken(evs, id) ==
  IF evs = <<>> THEN 0
  ELSE (IF evs[1].type = "combat:damage" /\ evs[1].targetId = id THEN evs[1].amount - evs[1].blocked
        ELSE 0) + Taken(Tail(evs), id)

\* the health entity id of world w has left after the first n events of evs
HealthBefore(w, evs, n, id) ==
  getComponent(w, id, "health").current - Taken(SubSeq(evs, 1, n), id)

\* C33: every hit of a random-enemy card is aimed at a living enemy - when
\* a hit of the card lands, its target has health left, unless no listed
\* enemy has.
RandomHitsTheLiving ==
  [][(/\ last'.op = "resolveCard" /\ KnownCard(last'.arg.cardId)
      /\ CardDatabase[last'.arg.cardId].target = "random_enemy") =>
       \A j \in 1..Len(events') :
         events'[j].type = "combat:damage" =>
           \/ HealthBefore(world, events', j - 1, events'[j].targetId) > 0
           \/ \A i \in 1..Len(state.enemyIds) :
                HealthBefore(world, events', j - 1, state.enemyIds[i]) <= 0]_vars

\* the call op(arg) resolves one damage effect that is routed to its source
IsSelfDamage(op, arg) ==
  /\ op = "resolveEffect" /\ arg.effect.type = "damage" /\ arg.effect.times <= 1
  /\ (arg.effect.value < 0 \/ arg.effect.target = "self")

\* C34: a damage effect with negative magnitude or self target takes
\* exactly |magnitude| from the block and then the health of its source,
\* whatever statuses the source holds; the other entity is not damaged and
\* the one damage event is all that is emitted (no reflection).
SelfDamageBypassesStatuses ==
  [][IsSelfDamage(last'.op, last'.arg) =>
       LET sourceId == last'.arg.sourceId
           other == 1 - sourceId
           amount == Abs(last'.arg.effect.value)
           k == getComponent(world, sourceId, "block").amount
           h == getComponent(world, sourceId, "health").current
       IN  /\ getComponent(world', sourceId, "block").amount = k - Min(k, amount)
           /\ getComponent(world', sourceId, "health").current = Max(0, h - (amount - Min(k, amount)))
           /\ getComponent(world', other, "health") = getComponent(world, other, "health")
           /\ getComponent(world', other, "block") = getComponent(world, other, "block")
           /\ Len(events') = 1]_vars

\* the damage event at index j of evs is an attack hit on a holder of thorns
HitOnThorns(w, evs, j) ==
  /\ evs[j].type = "combat:damage" /\ evs[j].isAttack
  /\ Truthy(effectsOf(w, evs[j].targetId), "thorns")

\* C35: thorns reflect once per attack hit and never back.  In every
\* resolver call and enemy action, each attack hit on a holder of thorns N
\* is followed at once by one non-attack damage event of amount N from the
\* holder to the attacker, also when the hit was absorbed, and every
\* non-attack damage event is such a reflection or a self-damage; the
\* reflected damage takes N from the attacker's block and then health,
\* whatever strength and weak the holder and vulnerable the attacker have.
ThornsReflectOnce ==
  [][/\ last'.op \in {"resolveEffect", "resolveCard", "resolveContentCard", "executeEnemyAction"} =>
          \A j \in 1..Len(events') :
            /\ HitOnThorns(world, events', j) =>
                 /\ j < Len(events')
                 /\ events'[j + 1].type = "combat:damage" /\ ~events'[j + 1].isAttack
                 /\ events'[j + 1].sourceId = events'[j].targetId
                 /\ events'[j + 1].targetId = events'[j].sourceId
                 /\ events'[j + 1].amount = effectsOf(world, events'[j].targetId)["thorns"]
            /\ (events'[j].type = "combat:damage" /\ ~events'[j].isAttack) =>
                 \/ events'[j].sourceId = events'[j].targetId
                 \/ j > 1 /\ HitOnThorns(world, events', j - 1)
     /\ (IsAttackHit(last'.op, last'.arg) /\ last'.op = "resolveEffect"
         /\ Truthy(effectsOf(world, last'.arg.targetId), "thorns")) =>
          LET attacker == last'.arg.sourceId
              n == effectsOf(world, last'.arg.targetId)["thorns"]
              k == getComponent(world, attacker, "block").amount
              h == getComponent(world, attacker, "health").current
          IN  /\ getComponent(world', attacker, "block").amount = k - Min(k, n)
              /\ getComponent(world', attacker, "health").current = Max(0, h - (n - Min(k, n)))
              /\ Len(events') = 2]_vars

\* the vulnerable player, holding thorns too, hit the blocking louse, which
\* holds thorns 2, strength and weak, for 1: the hit was absorbed and the
\* player lost 2 health
ThornsReflectedBehindBlock ==
  /\ last.op = "resolveEffect" /\ last.arg.effect = Effect("damage", 1)
  /\ last.arg.sourceId = 0 /\ last.arg.targetId = 1 /\ last.arg.cardTarget = "enemy"
  /\ effectsOf(world, 0) = [vulnerable |-> 1, thorns |-> 1]
  /\ effectsOf(world, 1) = [thorns |-> 2, strength |-> 1, weak |-> 1]
  /\ events[1].blocked = 1
  /\ getComponent(world, 1, "health").current = ArenaHealth
  /\ getComponent(world, 0, "health").current = ArenaHealth - 2

\* the living-enemy list of the session, as a set
Listed == { state.enemyIds[i] : i \in 1..Len(state.enemyIds) }

\* entity id is gone from the world: not an entity, in no component map and
\* under no tag
Destroyed(w, id) ==
  /\ ~hasEntity(w, id)
  /\ \A type \in DOMAIN w.components : ~hasComponent(w, id, type)
  /\ id \notin DOMAIN w.entityTags
  /\ \A tag \in DOMAIN w.tagEntities : ~InSeq(w.tagEntities[tag], id)

\* C36: whenever initCombat, playSelectedCard, selectTarget, endTurn or
\* forceDeathCheck returns, every listed enemy is an entity with
\* Health.current > 0, none is listed twice, and every entity created after
\* the player that is not listed is destroyed.
LivingListConsistent ==
  last.op \in {"initCombat", "playSelectedCard", "selectTarget", "endTurn", "forceDeathCheck"} =>
    /\ \A id \in Listed :
         /\ hasEntity(world, id)
         /\ hasComponent(world, id, "health")
         /\ getComponent(world, id, "health").current > 0
    /\ Cardinality(Listed) = Len(state.enemyIds)
    /\ \A id \in 1..(world.nextEntityId - 1) : id \notin Listed => Destroyed(world, id)

HasEnergyEffect(card) == \E i \in 1..Len(card.effects) : card.effects[i].type = "energy"

EnergyCurrent(w, id) == getComponent(w, id, "energy").current

\* C37: playSelectedCard on a selected hand card that carries the unplayable
\* keyword changes no state and emits nothing, and no playSelectedCard on a
\* known card without an energy effect leaves Energy.current higher than it
\* was before the call.
UnplayableIsNeverPlayed ==
  [][(last'.op = "playSelectedCard" /\ state.phase = "player_turn"
        /\ KnownCard(SelectedCard))
     => /\ "unplayable" \in CardDatabase[SelectedCard].keywords
             => /\ state' = state /\ world' = world /\ store' = store
                /\ events' = <<>>
        /\ (~HasEnergyEffect(CardDatabase[SelectedCard])
              /\ hasComponent(world', state.playerId, "energy"))
             => EnergyCurrent(world', state.playerId) <= EnergyCurrent(world, state.playerId)]_vars

\* Health.current of the player, a positive number while there is no player
PlayerHealth(machineState, w) ==
  IF machineState.playerId # NULL /\ hasComponent(w, machineState.playerId, "health")
  THEN getComponent(w, machineState.playerId, "health").current ELSE 1

\* C38: an entry point that returns in player_turn returns with the player's
\* Health.current above 0, and an entry point during which the player's
\* health reaches 0 returns in defeat.
DeadPlayerNeverActs ==
  [][/\ state'.phase = "player_turn" => PlayerHealth(state', world') > 0
     /\ (PlayerHealth(state, world) > 0 /\ PlayerHealth(state', world') <= 0)
          => state'.phase = "defeat"]_vars

\* how many times card id c lies in the hand, the draw pile and the discard pile
PileCount(st, c) ==
  Cardinality({i \in 1..Len(st.hand) : st.hand[i] = c})
    + Cardinality({i \in 1..Len(st.drawPile) : st.drawPile[i] = c})
    + Cardinality({i \in 1..Len(st.discardPile) : st.discardPile[i] = c})

\* the hand without the card at index, counted from 0
HandWithout(st, index) == SubSeq(st.hand, 1, index) \o SubSeq(st.hand, index + 2, Len(st.hand))

\* C39: no entry point changes how many copies of a card the hand, the draw
\* pile and the discard pile hold together; and a play that went through
\* leaves the selected card last in the discard pile and the other hand
\* cards in their order, followed by the cards its draw effect added.
CardsAreConserved ==
  [][/\ \A c \in DOMAIN CardDatabase : PileCount(store', c) = PileCount(store, c)
     /\ (last'.op \in {"playSelectedCard", "selectTarget"} /\ CardPlayedEmitted(events'))
          => LET index == state.selectedCardIndex
                 rest == HandWithout(store, index)
             IN  /\ store'.discardPile # <<>>
                 /\ store'.discardPile[Len(store'.discardPile)] = store.hand[index + 1]
                 /\ Len(store'.hand) >= Len(rest)
                 /\ SubSeq(store'.hand, 1, Len(rest)) = rest
                 /\ Len(store'.drawPile) <= Len(store.drawPile)
                      => /\ store'.discardPile = Append(store.discardPile, store.hand[index + 1])
                         /\ Len(store'.hand) - Len(rest) = Len(store.drawPile) - Len(store'.drawPile)]_vars

\* in the second turn, after the opening reshuffle, pommel_strike was played
\* and drew the last card of the draw pile into the hand
PlayedCardDrew ==
  /\ last.op = "selectTarget" /\ state.turn = 2
  /\ events # <<>> /\ CardPlayedEmitted(events)
  /\ store.discardPile = <<"pommel_strike">>
  /\ Len(store.hand) = 5 /\ store.drawPile = <<>>

\* the calls emit(eventType, data) owes the handlers of bus b: the handlers
\* of the type with the data, then the wildcard handlers with type and data
Owed(b, eventType, data) ==
  LET typed == handlersOf(b, eventType)
      wild == handlersOf(b, "*")
  IN  [i \in 1..Len(typed) |-> [handler |-> typed[i], payload |-> data]]
        \o [i \in 1..Len(wild) |->
              [handler |-> wild[i], payload |-> [type |-> eventType, data |-> data]]]

\* C40: every emit returns without throwing, and has called each handler
\* subscribed to the event type and then each wildcard handler, once and in
\* subscription order, whichever of them threw.
EmitIsFireAndForget ==
  [][last'.op = "emit" =>
       /\ ~last'.arg.thrown
       /\ bus'.calls = Owed(bus, last'.arg.type, 1)]_vars

\* an emit with two handlers of the type and two wildcard handlers called
\* all four, although the first of the type and the first wildcard threw
EmitSurvivedThrow ==
  /\ last.op = "emit" /\ ~last.arg.thrown
  /\ Len(bus.calls) = 2 * MaxHandlers
  /\ Throws(bus.calls[1].handler) /\ ~Throws(bus.calls[2].handler)
  /\ Throws(bus.calls[MaxHandlers + 1].handler)
  /\ Len(bus.console) >= 2

====
